---------------------------- MODULE Spec2Model ----------------------------
(***************************************************************************)
(* Model of the chaos-playbook-engine agents:                              *)
(*   - test_agent_adk_v2.py    run_test (recursive retry, reasoner policy) *)
(*   - test_agent_adk_v2_v1.py _tool_decide_retry (heuristic policy)       *)
(*   - test_agent_adk_v3.py    run_test_suite / _run_single_test           *)
(*   - chaos_agent_universal.py ChaosAgent (fault injection)               *)
(* Each agent or function has its own specification (SpecV2, SpecV3,       *)
(* SpecHeur, SpecChaos, SpecShared, SpecRepro, ...); the variables of the  *)
(* others stay at their initial values.                                    *)
(***************************************************************************)
EXTENDS Integers, Sequences, FiniteSets, TLC

VARIABLES
    \* ---- test_agent_adk_v2.py : one run_test(test_spec) call chain
    v2_playbook,      \* self.playbook['procedures']
    v2_func_set,      \* self.chaos_agent_func is not None
    v2_pc,            \* position of the run_test coroutine
    v2_attempt,       \* the attempt argument of the innermost run_test frame
    v2_status,        \* call_result['status_code'] of the innermost frame
    v2_result,        \* the dict run_test returns
    v2_exc,           \* exception escaping run_test ("" when none)
    v2_llm_calls,     \* self.llm_calls
    v2_tool_calls,    \* self.tool_calls
    v2_trail,         \* history: every decision _tool_decide_retry returned
    v2_all_raise,     \* history: every reasoner call so far raised
    v2_all_retry,     \* history: every reasoner call so far answered should_retry true
    v2_sleeps,        \* history: every delay passed to asyncio.sleep
    \* ---- test_agent_adk_v3.py : run_test_suite(tests)
    v3_playbook,      \* self.playbook['procedures']
    v3_tests,         \* the tests argument of run_test_suite
    v3_pc,            \* position of run_test_suite / _run_single_test
    v3_i,             \* index of the test being run (1-based)
    v3_attempt,       \* attempt local of _run_single_test
    v3_status,        \* status_code local of _run_single_test
    v3_results,       \* results local of run_test_suite
    v3_metrics,       \* self.metrics
    v3_trail,         \* history: decisions taken for the latest test
    v3_invocations,   \* history: operation invocations of the latest test
    v3_events,        \* history: the steps of the latest test, in order
    v3_runs,          \* history: run_test_suite calls made on the instance
    \* ---- decide_retry_tool (test_agent_adk_v3.py) as a pure function
    d_error_code, d_attempt, d_max_retries, d_action, d_reply, d_decision,
    \* ---- heuristic policies as pure functions
    h_attempt, h_max_retries, h_action, h_v21, h_v2, h_done,
    \* ---- chaos_agent_universal.py : one ChaosAgent instance
    ca_counter,       \* self._call_counter (0 while the attribute is absent)
    ca_calls,         \* history: number of _should_inject_chaos calls made
    ca_rate,          \* failure_rate of the last call, in thousandths
    ca_seed,          \* seed of the last call
    ca_inject,        \* result of the last _should_inject_chaos call
    ca_tool,          \* tool_name of the last call ("" for a direct call)
    ca_outcome,       \* the dict the last call returned
    \* ---- chaos_agent_universal.py : two test runs sharing one ChaosAgent
    sh_counter,       \* self._call_counter of the shared instance
    sh_rate,          \* failure_rate each run passes, in thousandths
    sh_seed,          \* seed each run passes
    sh_verdicts,      \* history: the verdicts each run received, in call order
    \* ---- chaos_agent_universal.py : two ChaosAgent instances, one request sequence
    rp_reqs,          \* the call requests issued so far
    rp_counter,       \* self._call_counter of each instance
    rp_outs,          \* history: the outcomes each instance returned
    \* ---- select_error_code (chaos_agent_universal.py) as a pure function
    se_tool, se_seed, se_code, se_done,
    \* ---- _tool_check_playbook (v2 and v2_v1) as pure functions
    lk_playbook, lk_code, lk_v2, lk_v21, lk_done,
    \* ---- _tool_apply_backoff (test_agent_adk_v3.py) over successive attempts
    bo_base,          \* base_delay, in half seconds
    bo_attempt,       \* attempt of the last call (0 before the first)
    bo_delay,         \* delay the last call slept, in half seconds
    bo_prev,          \* delay the call before it slept
    \* ---- test_agent_adk_v3_.py : one _run_single_test call
    vu_playbook,      \* self.playbook['procedures']
    vu_pc,            \* position of _run_single_test
    vu_attempt,       \* attempt local
    vu_status,        \* status_code local
    vu_result,        \* the dict _run_single_test returns
    vu_metrics,       \* self.metrics
    vu_log,           \* history: per attempt, its status, lookups and decisions
    \* ---- _tool_check_playbook (test_agent_adk_v3.py) as a pure function
    ck_playbook, ck_code, ck_strategy, ck_done,
    \* ---- test_agent_adk_v2_v1.py: TestAgentADK.run_test (heuristic decision)
    w_playbook,         \* self.playbook['procedures']
    w_func_set,         \* self.chaos_agent_func is set
    w_pc,               \* position in run_test
    w_attempt,          \* the attempt parameter of the current frame
    w_call,             \* how the last operation call ended
    w_outcome,          \* call_result
    w_strategy,         \* playbook_strategy
    w_looked_up,        \* error code looked up in this frame, 0 before
    w_decided,          \* _tool_decide_retry has run in this frame
    w_sleeps,           \* seconds slept, one entry per retry
    w_tool_calls,       \* self.tool_calls
    w_llm_calls,        \* self.llm_calls
    w_trail,            \* history: the strategies looked up, one per failure
    w_result,           \* the value run_test returns
    \* ---- test_agent.py: TestAgent.run_tests
    ta_suite,           \* test_suite["tests"]
    ta_idx,             \* idx of the loop, tests already handled
    ta_pc,              \* position in run_tests
    ta_results,         \* results
    ta_calls,           \* history: what chaos_agent.call did for each test
    ta_seed_offset,     \* the seed_offset argument
    ta_seeds,           \* history: the seed passed to each call
    \* ---- mvp_petstore_chaos.py: lookup_playbook as a pure function
    pl_playbook, pl_tool, pl_code, pl_result, pl_done,
    \* ---- chaos_agent_universal.py: error classes injected by one instance
    ec_counter,         \* self._call_counter
    ec_calls,           \* calls made so far
    ec_log,             \* history: the injected failures, in call order
    \* ---- mvp_petstore_chaos.py: ChaosProxy.send_request
    cp_failure_rate,    \* self.failure_rate
    cp_calls,           \* calls made so far
    cp_in,              \* the last call: method, rng values, what the API did
    cp_out,             \* the last call's return value
    cp_raised           \* an exception left send_request

v2_vars == <<v2_playbook, v2_func_set, v2_pc, v2_attempt, v2_status, v2_result,
             v2_exc, v2_llm_calls, v2_tool_calls, v2_trail, v2_all_raise,
             v2_all_retry, v2_sleeps>>
v3_vars == <<v3_playbook, v3_tests, v3_pc, v3_i, v3_attempt, v3_status,
             v3_results, v3_metrics, v3_trail, v3_invocations, v3_events,
             v3_runs>>
d_vars  == <<d_error_code, d_attempt, d_max_retries, d_action, d_reply,
             d_decision>>
h_vars  == <<h_attempt, h_max_retries, h_action, h_v21, h_v2, h_done>>
ca_vars == <<ca_counter, ca_calls, ca_rate, ca_seed, ca_inject, ca_tool,
             ca_outcome>>
sh_vars == <<sh_counter, sh_rate, sh_seed, sh_verdicts>>
\* the agents and functions modelled first, and those modelled after them
base_vars == <<v2_vars, v3_vars, d_vars, h_vars, ca_vars>>
rp_vars == <<rp_reqs, rp_counter, rp_outs>>
se_vars == <<se_tool, se_seed, se_code, se_done>>
lk_vars == <<lk_playbook, lk_code, lk_v2, lk_v21, lk_done>>
bo_vars == <<bo_base, bo_attempt, bo_delay, bo_prev>>
x_vars  == <<sh_vars, rp_vars, se_vars, lk_vars, bo_vars>>
vu_vars == <<vu_playbook, vu_pc, vu_attempt, vu_status, vu_result, vu_metrics,
             vu_log>>
ck_vars == <<ck_playbook, ck_code, ck_strategy, ck_done>>
w_vars == <<w_playbook, w_func_set, w_pc, w_attempt, w_call, w_outcome,
           w_strategy, w_looked_up, w_decided, w_sleeps, w_tool_calls,
           w_llm_calls, w_trail, w_result>>
ta_vars == <<ta_suite, ta_idx, ta_pc, ta_results, ta_calls, ta_seed_offset,
            ta_seeds>>
pl_vars == <<pl_playbook, pl_tool, pl_code, pl_result, pl_done>>
ec_vars == <<ec_counter, ec_calls, ec_log>>
cp_vars == <<cp_failure_rate, cp_calls, cp_in, cp_out, cp_raised>>
y_vars  == <<vu_vars, ck_vars, w_vars, ta_vars, pl_vars, ec_vars, cp_vars>>
vars    == <<base_vars, x_vars, y_vars>>

-----------------------------------------------------------------------------
(* Bounds of the model *)

\* largest max_retries a playbook procedure of the model configures
MaxRetriesCfg == 2
\* largest number of procedures in a playbook of the model
MaxProcs == 2
\* depth of run_test recursion the interpreter's stack allows
RecursionLimit == 4

-----------------------------------------------------------------------------
(* Python values *)

\* str(n) for a non-negative int: its decimal digits
RECURSIVE IntToStr(_)
IntToStr(n) == IF n < 10 THEN <<n>> ELSE IntToStr(n \div 10) \o <<n % 10>>

\* a playbook value that is an int, or a str of digits
PyInt(n) == [isStr |-> FALSE, n |-> n, s |-> <<>>]
PyStrVal(s) == [isStr |-> TRUE, n |-> 0, s |-> s]
\* str(value)
PyStr(value) == IF value.isStr THEN value.s ELSE IntToStr(value.n)

\* status codes an operation invocation can produce
StatusCodes == {200, 404, 503}
\* what awaiting chaos_agent_func can do: return an outcome, or raise
OperationOutcomes == StatusCodes \cup {-1}
Raises == -1

\* strategy actions a playbook can name
StrategyActions == {"retry", "fail", "escalate"}

-----------------------------------------------------------------------------
(* The reasoner (external capability): what one call can do *)

RequiredFields == {"should_retry", "reasoning", "confidence", "error_type"}
FieldSets == {RequiredFields} \cup {RequiredFields \ {f} : f \in RequiredFields}
\* kind: "raise"      the call raises
\*       "nonjson"    the reply text is not JSON
\*       "nonobject"  the reply is JSON but not an object (a list, a number)
\*       "object"     the reply is a JSON object carrying `fields`
\*       "fenced"     a JSON object carrying every field, wrapped in a
\*                    ``` markdown fence (so the text itself is not JSON)
Replies ==
    {[kind |-> k, fields |-> {}, should_retry |-> FALSE] :
        k \in {"raise", "nonjson", "nonobject"}}
    \cup
    {[kind |-> "object", fields |-> f, should_retry |-> b] :
        f \in FieldSets, b \in BOOLEAN}
    \cup
    {[kind |-> "fenced", fields |-> RequiredFields, should_retry |-> b] :
        b \in BOOLEAN}
NoReply == [kind |-> "none", fields |-> {}, should_retry |-> FALSE]
Conforming(reply) == reply.kind = "object" /\ reply.fields = RequiredFields


-----------------------------------------------------------------------------
(* test_agent_adk_v2.py : TestAgentADK *)

SeqsUpTo(S, n) == UNION {[1..k -> S] : k \in 0..n}

\* error_code values the procedures of the model's v2 playbooks carry
V2Codes == {PyInt(503)}
V2Procedures ==
    [error_code : V2Codes, action : StrategyActions,
     max_retries : 0..MaxRetriesCfg, backoff_seconds : {1}]
V2Playbooks == SeqsUpTo(V2Procedures, MaxProcs)

NoDecision == [action |-> "none"]
SuccessDecision == [action |-> "success"]
NoResult == [ok |-> FALSE, status_code |-> 0, attempts |-> 0,
             decision |-> NoDecision, playbook_used |-> FALSE, llm_used |-> FALSE]

\* _tool_call_operation: the outcome's status_code
v2_tool_call_operation(func_set, outcome) ==
    IF ~func_set THEN 500
    ELSE IF outcome = Raises THEN 500
    ELSE outcome

\* _tool_check_playbook: first procedure whose str(error_code) matches
v2_tool_check_playbook(playbook, error_code) ==
    LET hits == {i \in 1..Len(playbook) :
                    PyStr(playbook[i].error_code) = IntToStr(error_code)}
    IN  IF hits # {}
        THEN LET i == CHOOSE j \in hits : \A k \in hits : j <= k
             IN  [found |-> TRUE, action |-> playbook[i].action,
                  max_retries |-> playbook[i].max_retries,
                  backoff_seconds |-> playbook[i].backoff_seconds,
                  has_backoff |-> TRUE]
        ELSE \* the default strategy carries no 'backoff_seconds' key
             [found |-> FALSE, action |-> "fail", max_retries |-> 0,
              backoff_seconds |-> 1, has_backoff |-> FALSE]

\* _fallback_decide_retry
v2_fallback_decide_retry(attempt, max_retries, strategy_action) ==
    [action |-> IF attempt >= max_retries THEN "fail"
                ELSE IF strategy_action = "retry" THEN "retry"
                ELSE "fail",
     attempt |-> attempt, max_retries |-> max_retries,
     llm_called |-> FALSE, fallback |-> TRUE]

\* _tool_decide_retry, the prompt f-string (before the try): reads
\* strategy['action'], strategy['reason'], strategy['backoff_seconds']
v2_prompt_raises(strategy) == ~strategy.has_backoff

\* _tool_decide_retry, the try block and its two except clauses.
\* result_json['should_retry'], ['reasoning'], ['confidence'] are subscripted,
\* error_type is read with .get; a decision built from the reply has no
\* 'fallback' key (FALSE here).
v2_tool_decide_retry(attempt, max_retries, strategy, reply) ==
    IF reply.kind = "object"
       /\ {"should_retry", "reasoning", "confidence"} \subseteq reply.fields
    THEN [action |-> IF reply.should_retry THEN "retry" ELSE "fail",
          attempt |-> attempt, max_retries |-> max_retries,
          llm_called |-> TRUE, fallback |-> FALSE]
    ELSE v2_fallback_decide_retry(attempt, max_retries, strategy.action)

\* the frame is so deep that any further nested call overflows the stack
V2Overflow == v2_attempt > RecursionLimit

\* run_test lines 141-153 and 198-210: invoke the operation; success returns
V2_call_operation ==
    /\ v2_pc = "invoking"
    /\ \E outcome \in OperationOutcomes :
        /\ V2Overflow => outcome = Raises
        /\ LET status == v2_tool_call_operation(v2_func_set, outcome)
           IN  /\ v2_status' = status
               /\ v2_tool_calls' = v2_tool_calls + 1
               /\ IF status >= 400
                  THEN /\ v2_pc' = "deciding"
                       /\ UNCHANGED v2_result
                  ELSE /\ v2_pc' = "returned"
                       /\ v2_result' =
                            [ok |-> TRUE, status_code |-> status,
                             attempts |-> v2_attempt,
                             decision |-> SuccessDecision,
                             playbook_used |-> (v2_attempt # 1),
                             llm_used |-> (v2_attempt # 1)]
    /\ UNCHANGED <<v2_playbook, v2_func_set, v2_attempt, v2_exc, v2_llm_calls,
                   v2_trail, v2_all_raise, v2_all_retry, v2_sleeps>>
    /\ UNCHANGED <<v3_vars, d_vars, h_vars, ca_vars, x_vars, y_vars>>

\* run_test lines 155-196: playbook lookup, decision, accepted failure
V2_decide ==
    /\ v2_pc = "deciding"
    /\ LET strategy == v2_tool_check_playbook(v2_playbook, v2_status)
       IN  /\ v2_llm_calls' = v2_llm_calls + 1
           /\ IF v2_prompt_raises(strategy)
              THEN /\ v2_pc' = "raised"
                   /\ v2_exc' = "KeyError"
                   /\ UNCHANGED <<v2_result, v2_trail, v2_all_raise, v2_all_retry>>
              ELSE \E reply \in Replies :
                   /\ V2Overflow => reply.kind = "raise"
                   /\ LET decision == v2_tool_decide_retry(
                              v2_attempt, strategy.max_retries, strategy, reply)
                      IN  /\ v2_trail' = Append(v2_trail, decision)
                          /\ v2_all_raise' = (v2_all_raise /\ reply.kind = "raise")
                          /\ v2_all_retry' = (v2_all_retry /\ Conforming(reply)
                                                 /\ reply.should_retry)
                          /\ v2_exc' = v2_exc
                          /\ IF decision.action = "retry"
                             THEN /\ v2_pc' = "backoff"
                                  /\ UNCHANGED v2_result
                             ELSE /\ v2_pc' = "returned"
                                  /\ v2_result' =
                                       [ok |-> FALSE, status_code |-> v2_status,
                                        attempts |-> v2_attempt,
                                        decision |-> decision,
                                        playbook_used |-> TRUE,
                                        llm_used |-> TRUE]
    /\ UNCHANGED <<v2_playbook, v2_func_set, v2_attempt, v2_status,
                   v2_tool_calls, v2_sleeps>>
    /\ UNCHANGED <<v3_vars, d_vars, h_vars, ca_vars, x_vars, y_vars>>

\* run_test lines 174-181: backoff, then the recursive call.  At the stack
\* limit the nested call either raises RecursionError out of run_test, or
\* overflows inside a try block of a tool (the next frame runs with every
\* nested call raising).
V2_apply_backoff ==
    /\ v2_pc = "backoff"
    /\ LET strategy == v2_tool_check_playbook(v2_playbook, v2_status)
       IN  v2_sleeps' = Append(v2_sleeps, strategy.backoff_seconds * v2_attempt)
    /\ \/ /\ v2_attempt <= RecursionLimit
          /\ v2_attempt' = v2_attempt + 1
          /\ v2_pc' = "invoking"
          /\ UNCHANGED v2_exc
       \/ /\ v2_attempt >= RecursionLimit
          /\ v2_pc' = "raised"
          /\ v2_exc' = "RecursionError"
          /\ UNCHANGED v2_attempt
    /\ UNCHANGED <<v2_playbook, v2_func_set, v2_status, v2_result,
                   v2_llm_calls, v2_tool_calls, v2_trail, v2_all_raise,
                   v2_all_retry>>
    /\ UNCHANGED <<v3_vars, d_vars, h_vars, ca_vars, x_vars, y_vars>>

\* _tool_call_operation line 252: the awaited chaos_agent_func never completes;
\* the await has no timeout and run_test no deadline
V2_operation_hangs ==
    /\ v2_pc = "invoking"
    /\ v2_func_set
    /\ ~V2Overflow
    /\ v2_tool_calls' = v2_tool_calls + 1
    /\ v2_pc' = "awaiting_operation"
    /\ UNCHANGED <<v2_playbook, v2_func_set, v2_attempt, v2_status, v2_result,
                   v2_exc, v2_llm_calls, v2_trail, v2_all_raise, v2_all_retry,
                   v2_sleeps>>
    /\ UNCHANGED <<v3_vars, d_vars, h_vars, ca_vars, x_vars, y_vars>>

\* _tool_decide_retry line 362: the awaited model.generate_content never
\* completes; the await has no timeout and run_test no deadline
V2_reasoner_hangs ==
    /\ v2_pc = "deciding"
    /\ ~v2_prompt_raises(v2_tool_check_playbook(v2_playbook, v2_status))
    /\ ~V2Overflow
    /\ v2_llm_calls' = v2_llm_calls + 1
    /\ v2_pc' = "awaiting_reasoner"
    /\ UNCHANGED <<v2_playbook, v2_func_set, v2_attempt, v2_status, v2_result,
                   v2_exc, v2_tool_calls, v2_trail, v2_all_raise, v2_all_retry,
                   v2_sleeps>>
    /\ UNCHANGED <<v3_vars, d_vars, h_vars, ca_vars, x_vars, y_vars>>

V2Start ==
    /\ v2_pc = "invoking" /\ v2_attempt = 1 /\ v2_status = 0
    /\ v2_result = NoResult /\ v2_exc = ""
    /\ v2_llm_calls = 0 /\ v2_tool_calls = 0
    /\ v2_trail = <<>> /\ v2_all_raise = TRUE /\ v2_all_retry = TRUE
    /\ v2_sleeps = <<>>

V2Idle == v2_playbook = <<>> /\ v2_func_set = FALSE /\ V2Start

-----------------------------------------------------------------------------
(* test_agent_adk_v3.py : decide_retry_tool and TestAgentADK *)

\* largest number of tests in a suite of the model
MaxTests == 2
\* run_test_suite calls made on one instance
MaxRuns == 2
\* mutant: three retries after the first attempt
V3MaxRetries_retries_after_first == 3 + 1

\* max_retries local of _run_single_test
V3MaxRetries == 3
\* the cap of _tool_apply_backoff, in half seconds (10 s)
V3BackoffCap == 20

\* the playbook procedures of the model: 503 is listed as a str, 500 only
\* as an int (which str(error_code) never equals)
V3Procedures ==
    {[error_codes |-> <<PyStrVal(<<5, 0, 3>>)>>, recovery_strategy |-> "retry"],
     [error_codes |-> <<PyInt(500), PyStrVal(<<5, 0, 3>>)>>,
      recovery_strategy |-> "escalate"]}
V3Playbooks == SeqsUpTo(V3Procedures, MaxProcs)
\* a suite: tests with ids 1..k in that order
V3Suites == {[i \in 1..k |-> i] : k \in 0..MaxTests}
\* what awaiting chaos_agent_func yields: a status code, or an outcome
\* without 'status_code' (0)
V3Outcomes == {200, 400, 503, 0}

V3NoDecision == [action |-> "none", llm_called |-> FALSE]
V3Metrics0 == [total_tests |-> 0, passed |-> 0, failed |-> 0,
               total_attempts |-> 0, llm_calls |-> 0, tool_calls |-> 0,
               tests_with_llm_reasoning |-> 0]

\* `x in list` for a str x: equal to an element that is a str
PyStrIn(s, list) == \E j \in 1..Len(list) : list[j].isStr /\ list[j].s = s

\* TestAgentADK._tool_check_playbook
v3_tool_check_playbook(playbook, error_code) ==
    LET error_key == IntToStr(error_code)
        hits == {i \in 1..Len(playbook) :
                    PyStrIn(error_key, playbook[i].error_codes)}
    IN  IF hits # {}
        THEN LET i == CHOOSE j \in hits : \A k \in hits : j <= k
             IN  [action |-> playbook[i].recovery_strategy, max_retries |-> 3]
        ELSE [action |-> "fail", max_retries |-> 0]

\* decide_retry_tool: the except branch
v3_fallback(error_code, attempt, max_retries) ==
    [action |-> IF error_code # 400 /\ error_code # 422 /\ attempt < max_retries
                THEN "retry" ELSE "fail",
     llm_called |-> FALSE]

\* decide_retry_tool: a fence is stripped before json.loads; every field of
\* the parsed object is read with .get and a default
decide_retry_tool(error_code, attempt, max_retries, strategy_action, reply) ==
    IF reply.kind \in {"object", "fenced"}
    THEN [action |-> IF "should_retry" \in reply.fields /\ reply.should_retry
                     THEN "retry" ELSE "fail",
          llm_called |-> TRUE]
    ELSE v3_fallback(error_code, attempt, max_retries)

\* the default base_delay of _tool_apply_backoff, in half seconds (0.5 s)
V3BaseDelay == 1

\* mutant: the delay is not capped
v3_backoff_delay_uncapped(attempt, base_delay) ==
    base_delay * (2 ^ (attempt - 1))

\* _tool_apply_backoff: the delay slept, in half seconds
v3_backoff_delay(attempt, base_delay) ==
    LET delay == base_delay * (2 ^ (attempt - 1))
    IN  IF delay < V3BackoffCap THEN delay ELSE V3BackoffCap

\* a step of _run_single_test, with the attempt it belongs to
V3Event(ev, attempt) == [ev |-> ev, attempt |-> attempt]

\* mutant: the failure return does not test the attempt number
v3_stops_on_verdict_only(action, attempt) == action # "retry"

\* _run_single_test line 362: the test ends with this decision
v3_stops(action, attempt) == action # "retry" \/ attempt >= V3MaxRetries

\* mutant: a result is inserted at the front
v3_append_result_front(results, result) == <<result>> \o results

\* run_test_suite: results.append(result)
v3_append_result(results, result) == Append(results, result)

\* run_test_suite lines 305-311: record the result, count it, go on
V3Finish(result, metrics) ==
    /\ v3_results' = v3_append_result(v3_results, result)
    /\ v3_metrics' =
         IF result.ok THEN [metrics EXCEPT !.passed = @ + 1]
                      ELSE [metrics EXCEPT !.failed = @ + 1]
    /\ v3_i' = v3_i + 1
    /\ v3_attempt' = 0
    /\ v3_status' = 0
    /\ v3_pc' = IF v3_i + 1 > Len(v3_tests) THEN "done" ELSE "invoking"

\* run_test_suite lines 291-298
V3_run_test_suite ==
    /\ v3_pc = "idle"
    /\ \E tests \in V3Suites :
        /\ v3_tests' = tests
        /\ v3_metrics' = [v3_metrics EXCEPT !.total_tests = Len(tests)]
        /\ v3_pc' = IF Len(tests) = 0 THEN "done" ELSE "invoking"
    /\ v3_results' = <<>>
    /\ v3_i' = 1
    /\ v3_attempt' = 0
    /\ v3_runs' = v3_runs + 1
    /\ UNCHANGED <<v3_playbook, v3_status, v3_trail, v3_invocations,
                   v3_events>>
    /\ UNCHANGED <<v2_vars, d_vars, h_vars, ca_vars, x_vars, y_vars>>

\* run_test_suite lines 291-298, called again on the same instance once the
\* previous call has returned
V3_run_test_suite_again ==
    /\ v3_pc = "done"
    /\ v3_runs < MaxRuns
    /\ \E tests \in V3Suites :
        /\ v3_tests' = tests
        /\ v3_metrics' = [v3_metrics EXCEPT !.total_tests = Len(tests)]
        /\ v3_pc' = IF Len(tests) = 0 THEN "done" ELSE "invoking"
    /\ v3_results' = <<>>
    /\ v3_i' = 1
    /\ v3_attempt' = 0
    /\ v3_runs' = v3_runs + 1
    /\ UNCHANGED <<v3_playbook, v3_status, v3_trail, v3_invocations,
                   v3_events>>
    /\ UNCHANGED <<v2_vars, d_vars, h_vars, ca_vars, x_vars, y_vars>>

\* mutant: the attempt number advances by two per invocation
v3_next_attempt_skips(attempt) == attempt + 2

\* _run_single_test line 326: attempt += 1 at the loop head
v3_next_attempt(attempt) == attempt + 1

\* _run_single_test lines 322-346: loop head, invocation, success
V3_call_operation ==
    /\ v3_pc = "invoking"
    /\ v3_attempt < V3MaxRetries
    /\ \E outcome \in V3Outcomes :
        LET attempt == v3_next_attempt(v3_attempt)
            status == IF outcome = 0 THEN 500 ELSE outcome
            metrics == [v3_metrics EXCEPT !.total_attempts = @ + 1,
                                          !.tool_calls = @ + 1]
        IN  /\ v3_invocations' = IF v3_attempt = 0 THEN 1 ELSE v3_invocations + 1
            /\ v3_trail' = IF v3_attempt = 0 THEN <<>> ELSE v3_trail
            /\ v3_events' = (IF v3_attempt = 0 THEN <<>> ELSE v3_events)
                              \o <<V3Event("invoke", attempt),
                                   V3Event("evaluate", attempt)>>
            /\ IF status = 200
               THEN /\ V3Finish([test_id |-> v3_tests[v3_i], ok |-> TRUE,
                                 attempts |-> attempt, final_status |-> status,
                                 reason |-> "absent",
                                 decision |-> V3NoDecision], metrics)
               ELSE /\ v3_attempt' = attempt
                    /\ v3_status' = status
                    /\ v3_metrics' = metrics
                    /\ v3_pc' = "deciding"
                    /\ UNCHANGED <<v3_results, v3_i>>
    /\ UNCHANGED <<v3_playbook, v3_tests, v3_runs>>
    /\ UNCHANGED <<v2_vars, d_vars, h_vars, ca_vars, x_vars, y_vars>>

\* _run_single_test lines 348-373: playbook lookup, decision, failure
V3_decide ==
    /\ v3_pc = "deciding"
    /\ \E reply \in Replies :
        LET strategy == v3_tool_check_playbook(v3_playbook, v3_status)
            decision == decide_retry_tool(v3_status, v3_attempt, V3MaxRetries,
                                          strategy.action, reply)
            metrics == [v3_metrics EXCEPT !.tool_calls = @ + 1,
                                          !.llm_calls = @ + 1,
                                          !.tests_with_llm_reasoning = @ + 1]
        IN  /\ v3_trail' = Append(v3_trail, decision)
            /\ v3_events' = v3_events \o <<V3Event("lookup", v3_attempt),
                                           V3Event("decide", v3_attempt)>>
            /\ IF v3_stops(decision.action, v3_attempt)
               THEN V3Finish([test_id |-> v3_tests[v3_i], ok |-> FALSE,
                              attempts |-> v3_attempt,
                              final_status |-> v3_status,
                              reason |-> decision.action,
                              decision |-> decision], metrics)
               ELSE /\ v3_metrics' = metrics
                    /\ v3_pc' = "backoff"
                    /\ UNCHANGED <<v3_results, v3_i, v3_attempt, v3_status>>
    /\ UNCHANGED <<v3_playbook, v3_tests, v3_invocations, v3_runs>>
    /\ UNCHANGED <<v2_vars, d_vars, h_vars, ca_vars, x_vars, y_vars>>

\* _run_single_test lines 375-386: backoff, back to the loop head; the
\* return after the loop when the loop condition fails
V3_apply_backoff ==
    /\ v3_pc = "backoff"
    /\ LET metrics == [v3_metrics EXCEPT !.tool_calls = @ + 1]
       IN  IF v3_attempt < V3MaxRetries
           THEN /\ v3_metrics' = metrics
                /\ v3_pc' = "invoking"
                /\ UNCHANGED <<v3_results, v3_i, v3_attempt, v3_status>>
           ELSE V3Finish([test_id |-> v3_tests[v3_i], ok |-> FALSE,
                          attempts |-> v3_attempt, final_status |-> 0,
                          reason |-> "max_retries_exceeded",
                          decision |-> V3NoDecision], metrics)
    /\ v3_events' = Append(v3_events, V3Event("backoff", v3_attempt))
    /\ UNCHANGED <<v3_playbook, v3_tests, v3_trail, v3_invocations, v3_runs>>
    /\ UNCHANGED <<v2_vars, d_vars, h_vars, ca_vars, x_vars, y_vars>>

V3Start ==
    /\ v3_tests = <<>> /\ v3_pc = "idle" /\ v3_i = 1 /\ v3_attempt = 0
    /\ v3_status = 0 /\ v3_results = <<>> /\ v3_metrics = V3Metrics0
    /\ v3_trail = <<>> /\ v3_invocations = 0 /\ v3_events = <<>>
    /\ v3_runs = 0

V3Idle == v3_playbook = <<>> /\ V3Start

-----------------------------------------------------------------------------
(* decide_retry_tool of test_agent_adk_v3.py as a pure function *)

\* error codes decide_retry_tool is applied to
DecideCodes == {400, 422, 500, 503}
\* largest attempt and max_retries the policies are applied to
HeurMaxAttempt == 4
HeurMaxRetries == 4

DecideInit ==
    /\ d_error_code \in DecideCodes
    /\ d_attempt \in 1..HeurMaxAttempt
    /\ d_max_retries \in 0..HeurMaxRetries
    /\ d_action \in StrategyActions \cup {"unknown"}
    /\ d_reply \in Replies
    /\ d_decision = V3NoDecision

DIdle ==
    /\ d_error_code = 0 /\ d_attempt = 1 /\ d_max_retries = 0
    /\ d_action = "fail" /\ d_reply = NoReply /\ d_decision = V3NoDecision

\* one call of decide_retry_tool, the reasoner answering d_reply
DecideApply ==
    /\ d_decision = V3NoDecision
    /\ d_decision' = decide_retry_tool(d_error_code, d_attempt, d_max_retries,
                                       d_action, d_reply)
    /\ UNCHANGED <<d_error_code, d_attempt, d_max_retries, d_action, d_reply>>
    /\ UNCHANGED <<v2_vars, v3_vars, h_vars, ca_vars, x_vars, y_vars>>

-----------------------------------------------------------------------------
(* The heuristic retry policies as pure functions *)

\* mutant: the retry budget compared with > instead of >=
v21_tool_decide_retry_gt(attempt, max_retries, strategy_action) ==
    [action |-> IF attempt > max_retries THEN "fail"
                ELSE IF strategy_action = "retry" THEN "retry"
                ELSE "fail",
     attempt |-> attempt, max_retries |-> max_retries]

\* test_agent_adk_v2_v1.py TestAgentADK._tool_decide_retry
v21_tool_decide_retry(attempt, max_retries, strategy_action) ==
    [action |-> IF attempt >= max_retries THEN "fail"
                ELSE IF strategy_action = "retry" THEN "retry"
                ELSE "fail",
     attempt |-> attempt, max_retries |-> max_retries]

HeurInit ==
    /\ h_attempt \in 1..HeurMaxAttempt
    /\ h_max_retries \in 0..HeurMaxRetries
    /\ h_action \in StrategyActions \cup {"unknown"}
    /\ h_v21 = "none" /\ h_v2 = "none" /\ h_done = FALSE

HIdle ==
    /\ h_attempt = 1 /\ h_max_retries = 0 /\ h_action = "fail"
    /\ h_v21 = "none" /\ h_v2 = "none" /\ h_done = FALSE

\* apply both policies to the same context
HeurDecide ==
    /\ ~h_done
    /\ h_v21' = v21_tool_decide_retry(h_attempt, h_max_retries, h_action).action
    /\ h_v2' = v2_fallback_decide_retry(h_attempt, h_max_retries, h_action).action
    /\ h_done' = TRUE
    /\ UNCHANGED <<h_attempt, h_max_retries, h_action>>
    /\ UNCHANGED <<v2_vars, v3_vars, d_vars, ca_vars, x_vars, y_vars>>

-----------------------------------------------------------------------------
(* chaos_agent_universal.py : ChaosAgent *)

\* largest number of calls made on the ChaosAgent of the model
MaxCalls == 4

\* random.Random(seed).random(), in millionths (rounded down), for the
\* seeds the model can reach
RandomTable ==
    {<<40, 458606>>,
     <<41, 381020>>,
     <<42, 639426>>,
     <<43, 38551>>,
     <<44, 408535>>,
     <<45, 271875>>,
     <<46, 888268>>,
     <<47, 351846>>,
     <<48, 548157>>,
     <<49, 66883>>,
     <<50, 497536>>,
     <<51, 243517>>,
     <<52, 978354>>,
     <<53, 617141>>,
     <<54, 913642>>,
     <<55, 90339>>,
     <<98, 356398>>,
     <<99, 403978>>,
     <<100, 145669>>,
     <<101, 581152>>,
     <<102, 148171>>,
     <<103, 979050>>,
     <<104, 959960>>,
     <<105, 878099>>,
     <<106, 710683>>,
     <<107, 246481>>,
     <<108, 130520>>,
     <<109, 279583>>,
     <<110, 934261>>,
     <<111, 827170>>}
RandomMicro(seed) == (CHOOSE e \in RandomTable : e[1] = seed)[2]

\* seeds and failure rates (in thousandths) calls are made with
Seeds == {42, 43, 100}
Rates == {-500, 0, 300, 600, 1000, 1500}
\* ChaosAgentConfig defaults
DefaultFailureRate == 0
DefaultSeed == 42

\* self.chaos_strategies of the model: operation -> declared error codes
\* ("ping" declares none); "nope" is in no catalog
Tools == {"getPetById", "placeOrder", "ping", "nope"}
ChaosStrategies(tool) ==
    CASE tool = "getPetById" -> <<<<4, 0, 0>>, <<4, 0, 4>>>>
      [] tool = "placeOrder" -> <<<<4, 0, 0>>, <<4, 2, 2>>, <<5, 0, 3>>>>
      [] OTHER -> <<>>
KnownTools == {"getPetById", "placeOrder", "ping"}

\* mutant: a class absent from the table weighs nothing
ErrorWeight_absent_zero(code) ==
    CASE code = <<4, 0, 0>> -> 40
      [] code = <<4, 0, 4>> -> 30
      [] code = <<4, 2, 2>> -> 20
      [] code = <<5, 0, 0>> -> 10
      [] OTHER -> 0

\* ChaosAgentConfig.error_weights.get(code, 10)
ErrorWeight(code) ==
    CASE code = <<4, 0, 0>> -> 40
      [] code = <<4, 0, 4>> -> 30
      [] code = <<4, 2, 2>> -> 20
      [] code = <<5, 0, 0>> -> 10
      [] OTHER -> 10

\* int(s) for a str of digits
RECURSIVE StrToInt(_)
StrToInt(s) ==
    IF Len(s) = 0 THEN 0
    ELSE 10 * StrToInt(SubSeq(s, 1, Len(s) - 1)) + s[Len(s)]

\* mutant: the call counter kept once for the class, shared by the instances
should_inject_chaos_class_counter(counter, failure_rate, seed) ==
    IF failure_rate <= 0 THEN [result |-> FALSE, counter |-> counter]
    ELSE IF failure_rate >= 1000 THEN [result |-> TRUE, counter |-> counter]
    ELSE LET varied_seed == seed + (rp_counter[1] + rp_counter[2]) + 1
         IN  [result |-> RandomMicro(varied_seed) < failure_rate * 1000,
              counter |-> counter + 1]

\* mutant: the first boundary test inverted (>= for <=)
should_inject_chaos_inverted(counter, failure_rate, seed) ==
    IF failure_rate >= 0 THEN [result |-> FALSE, counter |-> counter]
    ELSE IF failure_rate >= 1000 THEN [result |-> TRUE, counter |-> counter]
    ELSE LET varied_seed == seed + counter + 1
         IN  [result |-> RandomMicro(varied_seed) < failure_rate * 1000,
              counter |-> counter + 1]

\* _should_inject_chaos: the result and self._call_counter afterwards
should_inject_chaos(counter, failure_rate, seed) ==
    IF failure_rate <= 0 THEN [result |-> FALSE, counter |-> counter]
    ELSE IF failure_rate >= 1000 THEN [result |-> TRUE, counter |-> counter]
    ELSE LET varied_seed == seed + counter + 1
         IN  [result |-> RandomMicro(varied_seed) < failure_rate * 1000,
              counter |-> counter + 1]

RECURSIVE SumTo(_, _)
SumTo(weights, k) == IF k = 0 THEN 0 ELSE SumTo(weights, k - 1) + weights[k]

\* random.Random(seed).choices(population, weights, k=1)[0]:
\* bisect of random() * total in the cumulative weights, hi = n - 1
Choices(seed, population, weights) ==
    LET n == Len(population)
        total == SumTo(weights, n)
        below == {k \in 1..(n - 1) :
                     SumTo(weights, k) * 1000000 <= RandomMicro(seed) * total}
    IN  population[Cardinality(below) + 1]

\* mutant: the error class drawn with the seed varied by the call counter
select_error_code_by_draw(tool_name, seed) ==
    IF tool_name \notin KnownTools THEN <<4, 0, 0>>
    ELSE LET available_errors == ChaosStrategies(tool_name)
         IN  IF Len(available_errors) = 0 THEN <<4, 0, 0>>
             ELSE Choices(seed + ec_counter, available_errors,
                          [k \in 1..Len(available_errors) |->
                              ErrorWeight(available_errors[k])])

\* select_error_code
select_error_code(tool_name, seed) ==
    IF tool_name \notin KnownTools THEN <<4, 0, 0>>
    ELSE LET available_errors == ChaosStrategies(tool_name)
         IN  IF Len(available_errors) = 0 THEN <<4, 0, 0>>
             ELSE Choices(seed, available_errors,
                          [k \in 1..Len(available_errors) |->
                              ErrorWeight(available_errors[k])])

\* mock_success_response
mock_success_response(tool_name) ==
    [status_code |-> 200, chaos_injected |-> FALSE, error |-> "None"]

\* mock_error_response
mock_error_response(tool_name, error_code) ==
    IF tool_name \notin KnownTools
    THEN [status_code |-> 404, chaos_injected |-> FALSE,
          error |-> "Unknown operation"]
    ELSE IF \A k \in 1..Len(ChaosStrategies(tool_name)) :
                ChaosStrategies(tool_name)[k] # error_code
    THEN [status_code |-> 500, chaos_injected |-> TRUE,
          error |-> "Internal error"]
    ELSE [status_code |-> StrToInt(error_code), chaos_injected |-> TRUE,
          error |-> "HTTP error_code"]

CANoOutcome == [status_code |-> 0, chaos_injected |-> FALSE, error |-> "None"]

\* a direct call of ChaosAgent._should_inject_chaos(failure_rate, seed)
CA_should_inject_chaos ==
    /\ ca_calls < MaxCalls
    /\ \E failure_rate \in Rates, seed \in Seeds :
        LET r == should_inject_chaos(ca_counter, failure_rate, seed)
        IN  /\ ca_inject' = r.result
            /\ ca_counter' = r.counter
            /\ ca_rate' = failure_rate
            /\ ca_seed' = seed
    /\ ca_calls' = ca_calls + 1
    /\ ca_tool' = ""
    /\ ca_outcome' = CANoOutcome
    /\ UNCHANGED <<v2_vars, v3_vars, d_vars, h_vars, x_vars, y_vars>>

\* ChaosAgent.call(tool_name, params, failure_rate, seed); failure_rate and
\* seed may be None and then take the configured defaults
CA_call ==
    /\ ca_calls < MaxCalls
    /\ \E tool_name \in Tools, rate_arg \in Rates \cup {-1},
          seed_arg \in Seeds \cup {-1} :
        LET failure_rate == IF rate_arg = -1 THEN DefaultFailureRate ELSE rate_arg
            seed == IF seed_arg = -1 THEN DefaultSeed ELSE seed_arg
            r == should_inject_chaos(ca_counter, failure_rate, seed)
        IN  /\ ca_inject' = r.result
            /\ ca_counter' = r.counter
            /\ ca_rate' = failure_rate
            /\ ca_seed' = seed
            /\ ca_tool' = tool_name
            /\ ca_outcome' =
                 IF ~r.result THEN mock_success_response(tool_name)
                 ELSE mock_error_response(tool_name,
                                          select_error_code(tool_name, seed))
    /\ ca_calls' = ca_calls + 1
    /\ UNCHANGED <<v2_vars, v3_vars, d_vars, h_vars, x_vars, y_vars>>

CAIdle ==
    /\ ca_counter = 0 /\ ca_calls = 0 /\ ca_rate = 0 /\ ca_seed = 0
    /\ ca_inject = FALSE /\ ca_tool = "" /\ ca_outcome = CANoOutcome

-----------------------------------------------------------------------------
(* chaos_agent_universal.py: two test runs calling one shared ChaosAgent.   *)
(* call() holds no await, so a call is one step and the runs interleave at  *)
(* call boundaries.                                                         *)

\* calls each run issues
MaxRunCalls == 3

Runs == {1, 2}
\* failure rates strictly between 0 and 1, in thousandths
MidRates == {r \in Rates : 0 < r /\ r < 1000}

\* run `run` awaits chaos_agent.call(tool_name, params, failure_rate, seed)
\* for an operation of the catalog; the verdict is _should_inject_chaos's
SH_call(run) ==
    /\ Len(sh_verdicts[run]) < MaxRunCalls
    /\ LET r == should_inject_chaos(sh_counter, sh_rate[run], sh_seed[run])
       IN  /\ sh_verdicts' = [sh_verdicts EXCEPT ![run] = Append(@, r.result)]
           /\ sh_counter' = r.counter
    /\ UNCHANGED <<sh_rate, sh_seed>>
    /\ UNCHANGED <<base_vars, y_vars, rp_vars, se_vars, lk_vars, bo_vars>>

SHStart == sh_counter = 0 /\ sh_verdicts = [run \in Runs |-> <<>>]
SHInit ==
    /\ sh_rate \in [Runs -> MidRates]
    /\ sh_seed \in [Runs -> Seeds]
    /\ SHStart
SHIdle ==
    /\ sh_rate = [run \in Runs |-> 0]
    /\ sh_seed = [run \in Runs |-> 0]
    /\ SHStart

-----------------------------------------------------------------------------
(* chaos_agent_universal.py: two fresh ChaosAgent instances built from the  *)
(* same catalog and configuration, receiving one sequence of call requests. *)

\* requests in the sequence
MaxRequests == 3

Instances == {1, 2}
\* arguments of the requests; -1 stands for None
RPTools == {"placeOrder", "nope"}
RPRates == {-1, 300, 1000}
RPSeeds == {-1, 43}
Requests == [tool_name : RPTools, failure_rate : RPRates, seed : RPSeeds]

\* ChaosAgent.call on an instance whose self._call_counter is `counter`:
\* the counter afterwards and the (status_code, chaos_injected, error) returned
chaos_call(counter, req) ==
    LET failure_rate == IF req.failure_rate = -1 THEN DefaultFailureRate
                        ELSE req.failure_rate
        seed == IF req.seed = -1 THEN DefaultSeed ELSE req.seed
        r == should_inject_chaos(counter, failure_rate, seed)
    IN  [counter |-> r.counter,
         outcome |-> IF ~r.result THEN mock_success_response(req.tool_name)
                     ELSE mock_error_response(req.tool_name,
                              select_error_code(req.tool_name, seed))]

\* the next request of the sequence is issued and the first instance serves it
RP_call_first ==
    /\ Len(rp_reqs) < MaxRequests
    /\ \E req \in Requests :
        LET c == chaos_call(rp_counter[1], req)
        IN  /\ rp_reqs' = Append(rp_reqs, req)
            /\ rp_counter' = [rp_counter EXCEPT ![1] = c.counter]
            /\ rp_outs' = [rp_outs EXCEPT ![1] = Append(@, c.outcome)]
    /\ UNCHANGED <<base_vars, y_vars, sh_vars, se_vars, lk_vars, bo_vars>>

\* the second instance serves its next request of the same sequence
RP_call_second ==
    /\ Len(rp_outs[2]) < Len(rp_reqs)
    /\ LET c == chaos_call(rp_counter[2], rp_reqs[Len(rp_outs[2]) + 1])
       IN  /\ rp_counter' = [rp_counter EXCEPT ![2] = c.counter]
           /\ rp_outs' = [rp_outs EXCEPT ![2] = Append(@, c.outcome)]
    /\ UNCHANGED rp_reqs
    /\ UNCHANGED <<base_vars, y_vars, sh_vars, se_vars, lk_vars, bo_vars>>

RPIdle ==
    /\ rp_reqs = <<>>
    /\ rp_counter = [i \in Instances |-> 0]
    /\ rp_outs = [i \in Instances |-> <<>>]

-----------------------------------------------------------------------------
(* chaos_agent_universal.py: select_error_code as a pure function *)

\* every seed whose draw is tabulated
SelectSeeds == {e[1] : e \in RandomTable}

SelectInit ==
    /\ se_tool \in Tools
    /\ se_seed \in SelectSeeds
    /\ se_code = <<>>
    /\ se_done = FALSE
SEIdle ==
    /\ se_tool = "" /\ se_seed = 0 /\ se_code = <<>> /\ se_done = FALSE

SelectApply ==
    /\ ~se_done
    /\ se_code' = select_error_code(se_tool, se_seed)
    /\ se_done' = TRUE
    /\ UNCHANGED <<se_tool, se_seed>>
    /\ UNCHANGED <<base_vars, y_vars, sh_vars, rp_vars, lk_vars, bo_vars>>

-----------------------------------------------------------------------------
(* _tool_check_playbook of test_agent_adk_v2.py and test_agent_adk_v2_v1.py *)
(* as pure functions                                                        *)

\* error_code values of the procedures: an int, the same code as a str,
\* another code as a str, and '' for a procedure without the key
LookupCodes == {PyInt(503), PyStrVal(<<5, 0, 3>>), PyStrVal(<<4, 0, 4>>),
                PyStrVal(<<>>)}
LookupProcedures ==
    [error_code : LookupCodes, action : StrategyActions,
     max_retries : 0..MaxRetriesCfg, backoff_seconds : {1}]
LookupPlaybooks == SeqsUpTo(LookupProcedures, MaxProcs)
\* the failing codes looked up
LookupErrors == {404, 503}

\* mutant: the last matching procedure wins
v21_tool_check_playbook_last(playbook, error_code) ==
    LET hits == {i \in 1..Len(playbook) :
                    PyStr(playbook[i].error_code) = IntToStr(error_code)}
    IN  IF hits # {}
        THEN LET i == CHOOSE j \in hits : \A k \in hits : j >= k
             IN  [found |-> TRUE, action |-> playbook[i].action,
                  max_retries |-> playbook[i].max_retries,
                  backoff_seconds |-> playbook[i].backoff_seconds,
                  has_backoff |-> TRUE]
        ELSE [found |-> FALSE, action |-> "fail", max_retries |-> 0,
              backoff_seconds |-> 1, has_backoff |-> FALSE]

\* _tool_check_playbook of test_agent_adk_v2_v1.py
v21_tool_check_playbook(playbook, error_code) ==
    LET hits == {i \in 1..Len(playbook) :
                    PyStr(playbook[i].error_code) = IntToStr(error_code)}
    IN  IF hits # {}
        THEN LET i == CHOOSE j \in hits : \A k \in hits : j <= k
             IN  [found |-> TRUE, action |-> playbook[i].action,
                  max_retries |-> playbook[i].max_retries,
                  backoff_seconds |-> playbook[i].backoff_seconds,
                  has_backoff |-> TRUE]
        ELSE \* the default strategy carries no 'backoff_seconds' key
             [found |-> FALSE, action |-> "fail", max_retries |-> 0,
              backoff_seconds |-> 1, has_backoff |-> FALSE]

LookupNone == [found |-> FALSE, action |-> "none", max_retries |-> 0,
               backoff_seconds |-> 0, has_backoff |-> FALSE]
LookupInit ==
    /\ lk_playbook \in LookupPlaybooks
    /\ lk_code \in LookupErrors
    /\ lk_v2 = LookupNone /\ lk_v21 = LookupNone /\ lk_done = FALSE
LKIdle ==
    /\ lk_playbook = <<>> /\ lk_code = 0
    /\ lk_v2 = LookupNone /\ lk_v21 = LookupNone /\ lk_done = FALSE

LookupApply ==
    /\ ~lk_done
    /\ lk_v2' = v2_tool_check_playbook(lk_playbook, lk_code)
    /\ lk_v21' = v21_tool_check_playbook(lk_playbook, lk_code)
    /\ lk_done' = TRUE
    /\ UNCHANGED <<lk_playbook, lk_code>>
    /\ UNCHANGED <<base_vars, y_vars, sh_vars, rp_vars, se_vars, bo_vars>>

-----------------------------------------------------------------------------
(* test_agent_adk_v3.py: _tool_apply_backoff called for attempt 1, 2, ...   *)

\* largest attempt the backoff is computed for
MaxBackoffAttempt == 8
\* largest base_delay, in half seconds
MaxBaseDelay == 12

BackoffStart == bo_attempt = 0 /\ bo_delay = 0 /\ bo_prev = 0
BackoffInit == bo_base \in 0..MaxBaseDelay /\ BackoffStart
BOIdle == bo_base = 0 /\ BackoffStart

\* _tool_apply_backoff(attempt, base_delay) for the next attempt
BackoffApply ==
    /\ bo_attempt < MaxBackoffAttempt
    /\ bo_attempt' = bo_attempt + 1
    /\ bo_delay' = v3_backoff_delay(bo_attempt + 1, bo_base)
    /\ bo_prev' = bo_delay
    /\ UNCHANGED bo_base
    /\ UNCHANGED <<base_vars, y_vars, sh_vars, rp_vars, se_vars, lk_vars>>

-----------------------------------------------------------------------------
(* test_agent_adk_v3_.py : TestAgentADK._run_single_test.  The playbooks    *)
(* carry 'recovery_strategy' in every procedure and the operation returns   *)
(* an outcome.                                                              *)

\* max_retries local of _run_single_test
VuMaxRetries == 3
VuProcedures ==
    [error_codes : {<<PyStrVal(<<4, 0, 0>>)>>, <<PyStrVal(<<5, 0, 3>>)>>},
     recovery_strategy : {"retry", "fail"}]
VuPlaybooks == SeqsUpTo(VuProcedures, MaxProcs)
\* what awaiting chaos_agent_func yields: a status code, or an outcome
\* without 'status_code' (0)
VuOutcomes == {200, 400, 503, 0}

VuMetrics0 == [total_attempts |-> 0, llm_calls |-> 0, tool_calls |-> 0,
               tests_with_llm_reasoning |-> 0]
VuNoResult == [ok |-> FALSE, attempts |-> 0, final_status |-> 0,
               reason |-> "none", decided |-> FALSE]
\* the history entry of an attempt that has just been invoked
VuAttempt(status) ==
    [status |-> status, lookups |-> 0, action |-> "none", decisions |-> 0,
     decision |-> "none", llm_called |-> FALSE]

\* _tool_check_playbook
vu_tool_check_playbook(playbook, error_code) ==
    LET error_key == IntToStr(error_code)
        hits == {i \in 1..Len(playbook) :
                    PyStrIn(error_key, playbook[i].error_codes)}
    IN  IF hits # {}
        THEN LET i == CHOOSE j \in hits : \A k \in hits : j <= k
             IN  [action |-> playbook[i].recovery_strategy, max_retries |-> 3]
        ELSE [action |-> "fail", max_retries |-> 0]

\* mutant: the fallback gives up
vu_fallback_gives_up(attempt, max_retries) ==
    [action |-> "fail", llm_called |-> FALSE]

\* _tool_decide_retry: the except branch
vu_fallback(attempt, max_retries) ==
    [action |-> IF attempt < max_retries THEN "retry" ELSE "fail",
     llm_called |-> FALSE]

\* _tool_decide_retry: a fence is stripped before json.loads; every field of
\* the parsed object is read with .get and a default
vu_tool_decide_retry(attempt, max_retries, reply) ==
    IF reply.kind \in {"object", "fenced"}
    THEN [action |-> IF "should_retry" \in reply.fields /\ reply.should_retry
                     THEN "retry" ELSE "fail",
          llm_called |-> TRUE]
    ELSE vu_fallback(attempt, max_retries)

\* _run_single_test lines 299-323: loop head, invocation, success
VU_call_operation ==
    /\ vu_pc = "invoking"
    /\ vu_attempt < VuMaxRetries
    /\ \E outcome \in VuOutcomes :
        LET attempt == vu_attempt + 1
            status == IF outcome = 0 THEN 500 ELSE outcome
        IN  /\ vu_attempt' = attempt
            /\ vu_status' = status
            /\ vu_log' = Append(vu_log, VuAttempt(status))
            /\ IF status = 200
               THEN /\ vu_result' = [ok |-> TRUE, attempts |-> attempt,
                                     final_status |-> status,
                                     reason |-> "absent", decided |-> FALSE]
                    /\ vu_pc' = "returned"
               ELSE /\ vu_pc' = "consulting"
                    /\ UNCHANGED vu_result
    /\ vu_metrics' = [vu_metrics EXCEPT !.total_attempts = @ + 1,
                                        !.tool_calls = @ + 1]
    /\ UNCHANGED vu_playbook
    /\ UNCHANGED <<base_vars, x_vars, ck_vars, w_vars, ta_vars, pl_vars, ec_vars, cp_vars>>

\* _run_single_test lines 325-341: playbook lookup; a strategy other than
\* 'retry', or the last attempt, returns the failure at once
VU_check_playbook ==
    /\ vu_pc = "consulting"
    /\ LET strategy == vu_tool_check_playbook(vu_playbook, vu_status)
       IN  /\ vu_log' = [vu_log EXCEPT ![Len(vu_log)].lookups = @ + 1,
                                       ![Len(vu_log)].action = strategy.action]
           /\ IF strategy.action # "retry" \/ vu_attempt >= VuMaxRetries
              THEN /\ vu_result' = [ok |-> FALSE, attempts |-> vu_attempt,
                                    final_status |-> vu_status,
                                    reason |-> strategy.action,
                                    decided |-> FALSE]
                   /\ vu_pc' = "returned"
              ELSE /\ vu_pc' = "deciding"
                   /\ UNCHANGED vu_result
    /\ vu_metrics' = [vu_metrics EXCEPT !.tool_calls = @ + 1]
    /\ UNCHANGED <<vu_playbook, vu_attempt, vu_status>>
    /\ UNCHANGED <<base_vars, x_vars, ck_vars, w_vars, ta_vars, pl_vars, ec_vars, cp_vars>>

\* _run_single_test lines 343-362: the decision; anything but 'retry' returns
VU_decide ==
    /\ vu_pc = "deciding"
    /\ \E reply \in Replies :
        LET decision == vu_tool_decide_retry(vu_attempt, VuMaxRetries, reply)
        IN  /\ vu_log' = [vu_log EXCEPT
                             ![Len(vu_log)].decisions = @ + 1,
                             ![Len(vu_log)].decision = decision.action,
                             ![Len(vu_log)].llm_called = decision.llm_called]
            /\ IF decision.action # "retry"
               THEN /\ vu_result' = [ok |-> FALSE, attempts |-> vu_attempt,
                                     final_status |-> vu_status,
                                     reason |-> "absent", decided |-> TRUE]
                    /\ vu_pc' = "returned"
               ELSE /\ vu_pc' = "backoff"
                    /\ UNCHANGED vu_result
    /\ vu_metrics' = [vu_metrics EXCEPT !.tool_calls = @ + 1,
                                        !.llm_calls = @ + 1,
                                        !.tests_with_llm_reasoning = @ + 1]
    /\ UNCHANGED <<vu_playbook, vu_attempt, vu_status>>
    /\ UNCHANGED <<base_vars, x_vars, ck_vars, w_vars, ta_vars, pl_vars, ec_vars, cp_vars>>

\* _run_single_test lines 364-375: backoff, back to the loop head; the
\* return after the loop when the loop condition fails
VU_apply_backoff ==
    /\ vu_pc = "backoff"
    /\ IF vu_attempt < VuMaxRetries
       THEN /\ vu_pc' = "invoking"
            /\ UNCHANGED vu_result
       ELSE /\ vu_pc' = "returned"
            /\ vu_result' = [ok |-> FALSE, attempts |-> vu_attempt,
                             final_status |-> 0,
                             reason |-> "max_retries_exceeded",
                             decided |-> FALSE]
    /\ vu_metrics' = [vu_metrics EXCEPT !.tool_calls = @ + 1]
    /\ UNCHANGED <<vu_playbook, vu_attempt, vu_status, vu_log>>
    /\ UNCHANGED <<base_vars, x_vars, ck_vars, w_vars, ta_vars, pl_vars, ec_vars, cp_vars>>

VUStart ==
    /\ vu_pc = "invoking" /\ vu_attempt = 0 /\ vu_status = 0
    /\ vu_result = VuNoResult /\ vu_metrics = VuMetrics0 /\ vu_log = <<>>
VUInit == vu_playbook \in VuPlaybooks /\ VUStart
VUIdle == vu_playbook = <<>> /\ VUStart

-----------------------------------------------------------------------------
(* test_agent_adk_v3.py: _tool_check_playbook as a pure function, over      *)
(* playbook entries that configure max_retries                              *)

CheckProcedures ==
    [error_codes : {<<PyStrVal(<<4, 0, 0>>)>>, <<PyStrVal(<<5, 0, 3>>)>>},
     recovery_strategy : {"retry", "fail"},
     max_retries : 0..MaxRetriesCfg]
CheckPlaybooks == SeqsUpTo(CheckProcedures, MaxProcs)
\* the failing codes looked up
CheckErrors == {400, 503}

CheckNone == [action |-> "none", max_retries |-> 0]
CheckStart == ck_strategy = CheckNone /\ ck_done = FALSE
CheckInit ==
    /\ ck_playbook \in CheckPlaybooks
    /\ ck_code \in CheckErrors
    /\ CheckStart
CKIdle == ck_playbook = <<>> /\ ck_code = 0 /\ CheckStart

CheckApply ==
    /\ ~ck_done
    /\ ck_strategy' = v3_tool_check_playbook(ck_playbook, ck_code)
    /\ ck_done' = TRUE
    /\ UNCHANGED <<ck_playbook, ck_code>>
    /\ UNCHANGED <<base_vars, x_vars, vu_vars, w_vars, ta_vars, pl_vars, ec_vars, cp_vars>>

-----------------------------------------------------------------------------
(* test_agent_adk_v2_v1.py : TestAgentADK.run_test                          *)

WProcedures ==
    [error_code : {PyInt(500), PyStrVal(<<5, 0, 3>>)},
     action : {"retry", "fail"},
     max_retries : 0..MaxRetriesCfg, backoff_seconds : {2}]
WPlaybooks == SeqsUpTo(WProcedures, MaxProcs)

\* what one call of chaos_agent_func can do: return an outcome or raise
WReturned(status_code, chaos_injected) ==
    [raises |-> FALSE, status_code |-> status_code,
     chaos_injected |-> chaos_injected]
WReplies ==
    {WReturned(200, FALSE), WReturned(201, FALSE), WReturned(404, FALSE),
     WReturned(500, TRUE), WReturned(503, TRUE),
     [raises |-> TRUE, status_code |-> 0, chaos_injected |-> FALSE]}

WNoOutcome == [escapes |-> FALSE, status_code |-> 0, chaos_injected |-> FALSE,
               error |-> "None"]
WNoResult == [ok |-> FALSE, status_code |-> 0, chaos_injected |-> FALSE,
              attempts |-> 0, decision |-> "none", playbook_used |-> FALSE]

\* mutant: no try/except around the call of chaos_agent_func
w_tool_call_operation_unguarded(func_set, reply) ==
    IF ~func_set
    THEN [escapes |-> FALSE, status_code |-> 500, chaos_injected |-> FALSE,
          error |-> "ChaosAgent not initialized"]
    ELSE IF reply.raises
    THEN [escapes |-> TRUE, status_code |-> 0, chaos_injected |-> FALSE,
          error |-> "str(e)"]
    ELSE [escapes |-> FALSE, status_code |-> reply.status_code,
          chaos_injected |-> reply.chaos_injected, error |-> "None"]

\* _tool_call_operation: the outcome handed to run_test; escapes says that an
\* exception leaves the tool instead
w_tool_call_operation(func_set, reply) ==
    IF ~func_set
    THEN [escapes |-> FALSE, status_code |-> 500, chaos_injected |-> FALSE,
          error |-> "ChaosAgent not initialized"]
    ELSE IF reply.raises
    THEN [escapes |-> FALSE, status_code |-> 500, chaos_injected |-> FALSE,
          error |-> "str(e)"]
    ELSE [escapes |-> FALSE, status_code |-> reply.status_code,
          chaos_injected |-> reply.chaos_injected, error |-> "None"]

\* mutant: the retry budget tested with > for >=
w_tool_decide_retry_one_more(attempt, max_retries, strategy) ==
    IF attempt > max_retries THEN "fail"
    ELSE IF strategy.action = "retry" THEN "retry"
    ELSE "fail"

\* _tool_decide_retry: the heuristic
w_tool_decide_retry(attempt, max_retries, strategy) ==
    IF attempt >= max_retries THEN "fail"
    ELSE IF strategy.action = "retry" THEN "retry"
    ELSE "fail"

\* run_test line 194: the seconds handed to _tool_apply_backoff
w_backoff(strategy, attempt) ==
    (IF strategy.has_backoff THEN strategy.backoff_seconds ELSE 1) * attempt

\* run_test lines 163-176 and 215-226: call the operation; success returns
W_call_operation ==
    /\ w_pc = "call"
    /\ \E reply \in WReplies :
        LET call_result == w_tool_call_operation(w_func_set, reply)
        IN  /\ w_tool_calls' = w_tool_calls + 1
            /\ w_call' = IF ~w_func_set THEN "unset"
                         ELSE IF reply.raises THEN "raised"
                         ELSE "returned"
            /\ IF call_result.escapes
               THEN /\ w_pc' = "escaped"
                    /\ UNCHANGED <<w_outcome, w_result>>
               ELSE /\ w_outcome' = call_result
                    /\ IF call_result.status_code >= 400
                       THEN w_pc' = "check" /\ UNCHANGED w_result
                       ELSE /\ w_pc' = "done"
                            /\ w_result' =
                                 [ok |-> TRUE,
                                  status_code |-> call_result.status_code,
                                  chaos_injected |-> call_result.chaos_injected,
                                  attempts |-> w_attempt,
                                  decision |-> "success",
                                  playbook_used |-> (w_attempt # 1)]
    /\ UNCHANGED <<w_playbook, w_func_set, w_attempt, w_strategy, w_looked_up,
                   w_decided, w_sleeps, w_llm_calls, w_trail>>
    /\ UNCHANGED <<base_vars, x_vars, vu_vars, ck_vars, ta_vars, pl_vars, ec_vars, cp_vars>>

\* run_test lines 177-180: playbook lookup for the failing status code
W_check_playbook ==
    /\ w_pc = "check"
    /\ w_strategy' = v21_tool_check_playbook(w_playbook, w_outcome.status_code)
    /\ w_looked_up' = w_outcome.status_code
    /\ w_trail' = Append(w_trail,
                         [error_code |-> w_outcome.status_code,
                          strategy |-> v21_tool_check_playbook(
                                           w_playbook, w_outcome.status_code)])
    /\ w_pc' = "decide"
    /\ UNCHANGED <<w_playbook, w_func_set, w_attempt, w_call, w_outcome,
                   w_decided, w_sleeps, w_tool_calls, w_llm_calls, w_result>>
    /\ UNCHANGED <<base_vars, x_vars, vu_vars, ck_vars, ta_vars, pl_vars, ec_vars, cp_vars>>

\* run_test lines 182-213: the decision; an accepted failure returns
W_decide ==
    /\ w_pc = "decide"
    /\ w_llm_calls' = w_llm_calls + 1
    /\ w_decided' = TRUE
    /\ LET decision == w_tool_decide_retry(w_attempt, w_strategy.max_retries,
                                           w_strategy)
       IN  IF decision = "retry"
           THEN w_pc' = "backoff" /\ UNCHANGED w_result
           ELSE /\ w_pc' = "done"
                /\ w_result' =
                     [ok |-> FALSE, status_code |-> w_outcome.status_code,
                      chaos_injected |-> w_outcome.chaos_injected,
                      attempts |-> w_attempt, decision |-> decision,
                      playbook_used |-> TRUE]
    /\ UNCHANGED <<w_playbook, w_func_set, w_attempt, w_call, w_outcome,
                   w_strategy, w_looked_up, w_sleeps, w_tool_calls, w_trail>>
    /\ UNCHANGED <<base_vars, x_vars, vu_vars, ck_vars, ta_vars, pl_vars, ec_vars, cp_vars>>

\* run_test lines 193-199: sleep, then the recursive call with attempt + 1
W_apply_backoff ==
    /\ w_pc = "backoff"
    /\ w_sleeps' = Append(w_sleeps, w_backoff(w_strategy, w_attempt))
    /\ w_attempt' = w_attempt + 1
    /\ w_pc' = "call"
    /\ w_call' = "none" /\ w_looked_up' = 0 /\ w_decided' = FALSE
    /\ UNCHANGED <<w_playbook, w_func_set, w_outcome, w_strategy,
                   w_tool_calls, w_llm_calls, w_trail, w_result>>
    /\ UNCHANGED <<base_vars, x_vars, vu_vars, ck_vars, ta_vars, pl_vars, ec_vars, cp_vars>>

WStart ==
    /\ w_pc = "call" /\ w_attempt = 1 /\ w_call = "none"
    /\ w_outcome = WNoOutcome /\ w_strategy = LookupNone
    /\ w_looked_up = 0 /\ w_decided = FALSE /\ w_sleeps = <<>>
    /\ w_tool_calls = 0 /\ w_llm_calls = 0 /\ w_trail = <<>>
    /\ w_result = WNoResult
WInit == w_playbook \in WPlaybooks /\ w_func_set \in BOOLEAN /\ WStart
WIdle == w_playbook = <<>> /\ w_func_set = FALSE /\ WStart

-----------------------------------------------------------------------------
(* test_agent.py : TestAgent.run_tests                                      *)

\* a test of the suite; "absent" stands for a key the test does not carry
TATests ==
    [test_id : {"a", "b", "absent"}, operation : {"getInventory"},
     expected_success : {"True", "False", "absent"}]
TASuites == SeqsUpTo(TATests, MaxTests)

\* what one call of chaos_agent.call can do: return a result dict, with or
\* without the 'status_code' key, or raise an Exception with some text
TAReplies ==
    {[kind |-> "returns", status_code |-> 200, chaos_injected |-> FALSE,
      error |-> "None"],
     [kind |-> "returns", status_code |-> 503, chaos_injected |-> TRUE,
      error |-> "HTTP 503"],
     [kind |-> "nostatus", status_code |-> 0, chaos_injected |-> FALSE,
      error |-> "None"],
     [kind |-> "raises", status_code |-> 0, chaos_injected |-> FALSE,
      error |-> "boom"],
     [kind |-> "raises", status_code |-> 0, chaos_injected |-> FALSE,
      error |-> "timed out"]}

\* Python's None as a status_code
TANone == -1

TADigit(d) == <<"0", "1", "2", "3", "4", "5", "6", "7", "8", "9">>[d + 1]
\* f"test_{n:04d}" for n < 10000
TADefaultTestId(n) ==
    "test_" \o TADigit((n \div 1000) % 10) \o TADigit((n \div 100) % 10)
            \o TADigit((n \div 10) % 10) \o TADigit(n % 10)

\* test.get("test_id", f"test_{idx+1:04d}")
TATestId(test, idx) ==
    IF test.test_id = "absent" THEN TADefaultTestId(idx + 1) ELSE test.test_id

\* test.get("expected_success", True)
TAExpected(test) == test.expected_success # "False"

\* mutant: no try/except around the call
ta_call_unguarded(test, reply) ==
    IF reply.kind = "raises"
    THEN [escapes |-> TRUE, status_code |-> TANone, ok |-> FALSE,
          chaos_injected |-> FALSE, error |-> reply.error]
    ELSE IF reply.kind = "nostatus"
    THEN [escapes |-> TRUE, status_code |-> TANone, ok |-> FALSE,
          chaos_injected |-> FALSE, error |-> "'status_code'"]
    ELSE [escapes |-> FALSE, status_code |-> reply.status_code,
          ok |-> ((reply.status_code = 200) = TAExpected(test)),
          chaos_injected |-> reply.chaos_injected, error |-> reply.error]

\* run_tests lines 45-56: the call, the verdict, and the except branch, which
\* also catches the KeyError of result["status_code"]
ta_call(test, reply) ==
    IF reply.kind = "raises"
    THEN [escapes |-> FALSE, status_code |-> TANone, ok |-> FALSE,
          chaos_injected |-> FALSE, error |-> reply.error]
    ELSE IF reply.kind = "nostatus"
    THEN [escapes |-> FALSE, status_code |-> TANone, ok |-> FALSE,
          chaos_injected |-> FALSE, error |-> "'status_code'"]
    ELSE [escapes |-> FALSE, status_code |-> reply.status_code,
          ok |-> ((reply.status_code = 200) = TAExpected(test)),
          chaos_injected |-> reply.chaos_injected, error |-> reply.error]

\* run_tests lines 40-67: one iteration of the loop over the suite
TA_run_test ==
    /\ ta_pc = "loop"
    /\ ta_idx < Len(ta_suite)
    /\ \E reply \in TAReplies :
        LET test == ta_suite[ta_idx + 1]
            r == ta_call(test, reply)
        IN  /\ ta_calls' = Append(ta_calls, reply)
            /\ ta_seeds' = Append(ta_seeds, ta_seed_offset + ta_idx)
            /\ IF r.escapes
               THEN ta_pc' = "escaped" /\ UNCHANGED <<ta_results, ta_idx>>
               ELSE /\ ta_results' =
                         Append(ta_results,
                                [test_id |-> TATestId(test, ta_idx),
                                 operation |-> test.operation,
                                 expected_success |-> TAExpected(test),
                                 status_code |-> r.status_code,
                                 ok |-> r.ok,
                                 chaos_injected |-> r.chaos_injected,
                                 error |-> r.error])
                    /\ ta_idx' = ta_idx + 1
                    /\ UNCHANGED ta_pc
    /\ UNCHANGED <<ta_suite, ta_seed_offset>>
    /\ UNCHANGED <<base_vars, x_vars, vu_vars, ck_vars, w_vars, pl_vars, ec_vars, cp_vars>>

\* run_tests line 69: the loop is exhausted, results is returned
TA_return ==
    /\ ta_pc = "loop"
    /\ ta_idx = Len(ta_suite)
    /\ ta_pc' = "done"
    /\ UNCHANGED <<ta_suite, ta_idx, ta_results, ta_calls, ta_seed_offset,
                   ta_seeds>>
    /\ UNCHANGED <<base_vars, x_vars, vu_vars, ck_vars, w_vars, pl_vars, ec_vars, cp_vars>>

TAStart ==
    /\ ta_pc = "loop" /\ ta_idx = 0 /\ ta_results = <<>> /\ ta_calls = <<>>
    /\ ta_seeds = <<>>
\* the seed_offset argument: the default 0 or another offset
TASeedOffsets == {0, 42}
TAInit ==
    /\ ta_suite \in TASuites /\ ta_seed_offset \in TASeedOffsets /\ TAStart
TAIdle == ta_suite = <<>> /\ ta_seed_offset = 0 /\ TAStart

-----------------------------------------------------------------------------
(* mvp_petstore_chaos.py : lookup_playbook as a pure function of the        *)
(* playbook file and its arguments                                          *)

\* what the playbook holds under a key: nothing, an empty object, a strategy
MvpEntries == {"absent", "empty", "retry", "wait"}
\* the file: unreadable (missing, not JSON, not an object) or a JSON object
\* with an optional tool section for place_order, keyed by error code, and
\* an optional "default" entry
MvpPlaybooks ==
    [readable : BOOLEAN, has_tool : BOOLEAN,
     k503 : MvpEntries, k404 : MvpEntries,
     default : {"absent", "escalate_to_human"}]
MvpTools == {"place_order", "get_inventory"}
\* the error_code argument: an int or a str
MvpCodes == {PyInt(503), PyStrVal(<<5, 0, 3>>), PyStrVal(<<4, 0, 4>>),
             PyStrVal(<<4, 0, 8>>)}

\* tool_config.get(str(error_code)) for tool_config = playbook.get(tool, {})
MvpToolEntry(playbook, tool_name, error_code) ==
    IF ~playbook.has_tool \/ tool_name # "place_order" THEN "absent"
    ELSE IF PyStr(error_code) = <<5, 0, 3>> THEN playbook.k503
    ELSE IF PyStr(error_code) = <<4, 0, 4>> THEN playbook.k404
    ELSE "absent"

\* lookup_playbook; recommendation "absent" stands for None
lookup_playbook(playbook, tool_name, error_code) ==
    IF ~playbook.readable
    THEN [status |-> "error", found |-> FALSE, recommendation |-> "absent"]
    ELSE LET strategy == MvpToolEntry(playbook, tool_name, error_code)
         IN  IF strategy \notin {"absent", "empty"}
             THEN [status |-> "success", found |-> TRUE,
                   recommendation |-> strategy]
             ELSE [status |-> "success", found |-> FALSE,
                   recommendation |-> playbook.default]

MvpNoResult == [status |-> "none", found |-> FALSE, recommendation |-> "absent"]
PLStart == pl_result = MvpNoResult /\ pl_done = FALSE
PLInit ==
    /\ pl_playbook \in MvpPlaybooks /\ pl_tool \in MvpTools
    /\ pl_code \in MvpCodes /\ PLStart
PLIdle ==
    /\ pl_playbook = [readable |-> FALSE, has_tool |-> FALSE, k503 |-> "absent",
                      k404 |-> "absent", default |-> "absent"]
    /\ pl_tool = "" /\ pl_code = PyInt(0) /\ PLStart

PLApply ==
    /\ ~pl_done
    /\ pl_result' = lookup_playbook(pl_playbook, pl_tool, pl_code)
    /\ pl_done' = TRUE
    /\ UNCHANGED <<pl_playbook, pl_tool, pl_code>>
    /\ UNCHANGED <<base_vars, x_vars, vu_vars, ck_vars, w_vars, ta_vars, ec_vars, cp_vars>>

-----------------------------------------------------------------------------
(* chaos_agent_universal.py: the error class injected by ChaosAgent.call    *)
(* over a sequence of calls on one instance                                 *)

ECRequests ==
    [tool_name : {"getPetById", "placeOrder"}, failure_rate : {0, 600, 1000},
     seed : {42, 43}]

\* ChaosAgent.call(tool_name, params, failure_rate, seed) on the instance;
\* an injected failure is logged with the draw index the call started from
EC_call ==
    /\ ec_calls < MaxCalls
    /\ \E req \in ECRequests :
        LET c == chaos_call(ec_counter, req)
        IN  /\ ec_counter' = c.counter
            /\ ec_log' = IF c.outcome.status_code = 200 THEN ec_log
                         ELSE Append(ec_log,
                                     [tool_name |-> req.tool_name,
                                      seed |-> req.seed,
                                      counter |-> ec_counter,
                                      status_code |-> c.outcome.status_code,
                                      error |-> c.outcome.error])
    /\ ec_calls' = ec_calls + 1
    /\ UNCHANGED <<base_vars, x_vars, vu_vars, ck_vars, w_vars, ta_vars,
                   pl_vars, cp_vars>>

ECIdle == ec_counter = 0 /\ ec_calls = 0 /\ ec_log = <<>>

-----------------------------------------------------------------------------
(* mvp_petstore_chaos.py : ChaosProxy.send_request                          *)

\* self.failure_rate, in thousandths
CPRates == {0, 200, 1000}
\* values of self.rng.random(), in thousandths
CPDraws == {0, 199, 200, 999}
\* the list self.rng.choice picks from
CPChaosCodes == {404, 503, 408, 429}
CPMethods == {"GET", "POST", "PUT", "DELETE"}
\* what the real API call does: a transport exception, or a response whose
\* body decodes as JSON or not
CPReals ==
    {[kind |-> "transport", status_code |-> 0, json_ok |-> FALSE],
     [kind |-> "response", status_code |-> 200, json_ok |-> TRUE],
     [kind |-> "response", status_code |-> 200, json_ok |-> FALSE],
     [kind |-> "response", status_code |-> 404, json_ok |-> TRUE],
     [kind |-> "response", status_code |-> 500, json_ok |-> FALSE]}
CPInputs == [method : CPMethods, draw : CPDraws, pick : CPChaosCodes,
             real : CPReals]

CPOutcome(status, code, issued, raises) ==
    [status |-> status, code |-> code, issued |-> issued, raises |-> raises]

\* mutant: no try/except around the real call
send_request_unguarded(failure_rate, in) ==
    IF in.draw < failure_rate
    THEN CPOutcome("error", in.pick, FALSE, FALSE)
    ELSE IF in.method \notin {"GET", "POST", "PUT"}
    THEN CPOutcome("none", 0, FALSE, TRUE)
    ELSE IF in.real.kind = "transport"
    THEN CPOutcome("none", 0, TRUE, TRUE)
    ELSE IF in.real.status_code >= 400
    THEN CPOutcome("error", in.real.status_code, TRUE, FALSE)
    ELSE IF ~in.real.json_ok
    THEN CPOutcome("none", 0, TRUE, TRUE)
    ELSE CPOutcome("success", in.real.status_code, TRUE, FALSE)

\* send_request: the dict returned, whether a real request was issued, and
\* whether an exception leaves the method instead.  With a method other than
\* GET, POST and PUT resp is unbound at line 43 and the UnboundLocalError is
\* caught at line 47.
send_request(failure_rate, in) ==
    IF in.draw < failure_rate
    THEN CPOutcome("error", in.pick, FALSE, FALSE)
    ELSE IF in.method \notin {"GET", "POST", "PUT"}
    THEN CPOutcome("error", 500, FALSE, FALSE)
    ELSE IF in.real.kind = "transport"
    THEN CPOutcome("error", 500, TRUE, FALSE)
    ELSE IF in.real.status_code >= 400
    THEN CPOutcome("error", in.real.status_code, TRUE, FALSE)
    ELSE IF ~in.real.json_ok
    THEN CPOutcome("error", 500, TRUE, FALSE)
    ELSE CPOutcome("success", in.real.status_code, TRUE, FALSE)

CPNoInput == [method |-> "", draw |-> 0, pick |-> 0,
              real |-> [kind |-> "none", status_code |-> 0, json_ok |-> FALSE]]
CPStart ==
    /\ cp_calls = 0 /\ cp_in = CPNoInput /\ cp_raised = FALSE
    /\ cp_out = CPOutcome("none", 0, FALSE, FALSE)
CPInit == cp_failure_rate \in CPRates /\ CPStart
CPIdle == cp_failure_rate = 0 /\ CPStart

\* a call of send_request on the proxy
CP_send_request ==
    /\ cp_calls < MaxCalls
    /\ ~cp_raised
    /\ \E in \in CPInputs :
        /\ cp_in' = in
        /\ cp_out' = send_request(cp_failure_rate, in)
        /\ cp_raised' = send_request(cp_failure_rate, in).raises
    /\ cp_calls' = cp_calls + 1
    /\ UNCHANGED cp_failure_rate
    /\ UNCHANGED <<base_vars, x_vars, vu_vars, ck_vars, w_vars, ta_vars,
                   pl_vars, ec_vars>>

-----------------------------------------------------------------------------
(* Specifications *)

BaseIdle == V2Idle /\ V3Idle /\ DIdle /\ HIdle /\ CAIdle
XIdle == SHIdle /\ RPIdle /\ SEIdle /\ LKIdle /\ BOIdle
YIdle == VUIdle /\ CKIdle /\ WIdle /\ TAIdle /\ PLIdle /\ ECIdle /\ CPIdle

InitV2 ==
    /\ v2_playbook \in V2Playbooks /\ v2_func_set \in BOOLEAN /\ V2Start
    /\ V3Idle /\ DIdle /\ HIdle /\ CAIdle /\ XIdle /\ YIdle
NextV2 == V2_call_operation \/ V2_decide \/ V2_apply_backoff
SpecV2 == InitV2 /\ [][NextV2]_vars

\* the same agent with operation and reasoner calls that may never complete
NextV2Hang == NextV2 \/ V2_operation_hangs \/ V2_reasoner_hangs
SpecV2Hang == InitV2 /\ [][NextV2Hang]_vars

InitV3 ==
    /\ v3_playbook \in V3Playbooks /\ V3Start
    /\ V2Idle /\ DIdle /\ HIdle /\ CAIdle /\ XIdle /\ YIdle
NextV3 == V3_run_test_suite \/ V3_call_operation \/ V3_decide \/ V3_apply_backoff
SpecV3 == InitV3 /\ [][NextV3]_vars

\* the same agent with run_test_suite called more than once
NextV3Rerun == NextV3 \/ V3_run_test_suite_again
SpecV3Rerun == InitV3 /\ [][NextV3Rerun]_vars

InitHeur == HeurInit /\ V2Idle /\ V3Idle /\ DIdle /\ CAIdle /\ XIdle /\ YIdle
NextHeur == HeurDecide
SpecHeur == InitHeur /\ [][NextHeur]_vars

InitDecide == DecideInit /\ V2Idle /\ V3Idle /\ HIdle /\ CAIdle /\ XIdle /\ YIdle
NextDecide == DecideApply
SpecDecide == InitDecide /\ [][NextDecide]_vars

InitChaos == CAIdle /\ V2Idle /\ V3Idle /\ DIdle /\ HIdle /\ XIdle /\ YIdle
NextChaos == CA_should_inject_chaos \/ CA_call
SpecChaos == InitChaos /\ [][NextChaos]_vars

InitShared == SHInit /\ BaseIdle /\ YIdle /\ RPIdle /\ SEIdle /\ LKIdle /\ BOIdle
NextShared == \E run \in Runs : SH_call(run)
SpecShared == InitShared /\ [][NextShared]_vars

InitRepro == RPIdle /\ BaseIdle /\ YIdle /\ SHIdle /\ SEIdle /\ LKIdle /\ BOIdle
NextRepro == RP_call_first \/ RP_call_second
SpecRepro == InitRepro /\ [][NextRepro]_vars

InitSelect == SelectInit /\ BaseIdle /\ YIdle /\ SHIdle /\ RPIdle /\ LKIdle /\ BOIdle
NextSelect == SelectApply
SpecSelect == InitSelect /\ [][NextSelect]_vars

InitLookup == LookupInit /\ BaseIdle /\ YIdle /\ SHIdle /\ RPIdle /\ SEIdle /\ BOIdle
NextLookup == LookupApply
SpecLookup == InitLookup /\ [][NextLookup]_vars

InitBackoff == BackoffInit /\ BaseIdle /\ YIdle /\ SHIdle /\ RPIdle /\ SEIdle /\ LKIdle
NextBackoff == BackoffApply
SpecBackoff == InitBackoff /\ [][NextBackoff]_vars

InitV3u == VUInit /\ BaseIdle /\ XIdle /\ CKIdle /\ WIdle /\ TAIdle /\ PLIdle /\ ECIdle /\ CPIdle
NextV3u == VU_call_operation \/ VU_check_playbook \/ VU_decide \/ VU_apply_backoff
SpecV3u == InitV3u /\ [][NextV3u]_vars

InitCheck == CheckInit /\ BaseIdle /\ XIdle /\ VUIdle /\ WIdle /\ TAIdle /\ PLIdle /\ ECIdle /\ CPIdle
NextCheck == CheckApply
SpecCheck == InitCheck /\ [][NextCheck]_vars

InitV21 == WInit /\ BaseIdle /\ XIdle /\ VUIdle /\ CKIdle /\ TAIdle /\ PLIdle /\ ECIdle /\ CPIdle
NextV21 == W_call_operation \/ W_check_playbook \/ W_decide \/ W_apply_backoff
SpecV21 == InitV21 /\ [][NextV21]_vars

InitTA == TAInit /\ BaseIdle /\ XIdle /\ VUIdle /\ CKIdle /\ WIdle /\ PLIdle /\ ECIdle /\ CPIdle
NextTA == TA_run_test \/ TA_return
SpecTA == InitTA /\ [][NextTA]_vars

InitMvpLookup == PLInit /\ BaseIdle /\ XIdle /\ VUIdle /\ CKIdle /\ WIdle /\ TAIdle /\ ECIdle /\ CPIdle
NextMvpLookup == PLApply
SpecMvpLookup == InitMvpLookup /\ [][NextMvpLookup]_vars

InitErrClass == ECIdle /\ BaseIdle /\ XIdle /\ VUIdle /\ CKIdle /\ WIdle /\ TAIdle /\ PLIdle /\ CPIdle
NextErrClass == EC_call
SpecErrClass == InitErrClass /\ [][NextErrClass]_vars

InitProxy == CPInit /\ BaseIdle /\ XIdle /\ VUIdle /\ CKIdle /\ WIdle /\ TAIdle /\ PLIdle /\ ECIdle
NextProxy == CP_send_request
SpecProxy == InitProxy /\ [][NextProxy]_vars

\* every agent; a behaviour runs one of them, the others stay idle
Init ==
    \/ InitV2 \/ InitV3 \/ InitDecide \/ InitHeur \/ InitChaos
    \/ InitShared \/ InitRepro \/ InitSelect \/ InitLookup \/ InitBackoff
    \/ InitV3u \/ InitCheck \/ InitV21 \/ InitTA \/ InitMvpLookup \/ InitErrClass \/ InitProxy
Next ==
    \/ V3Idle /\ DIdle /\ HIdle /\ CAIdle /\ XIdle /\ YIdle /\ NextV2Hang
    \/ V2Idle /\ DIdle /\ HIdle /\ CAIdle /\ XIdle /\ YIdle /\ NextV3Rerun
    \/ V2Idle /\ V3Idle /\ HIdle /\ CAIdle /\ XIdle /\ YIdle /\ NextDecide
    \/ V2Idle /\ V3Idle /\ DIdle /\ CAIdle /\ XIdle /\ YIdle /\ NextHeur
    \/ V2Idle /\ V3Idle /\ DIdle /\ HIdle /\ XIdle /\ YIdle /\ NextChaos
    \/ BaseIdle /\ YIdle /\ RPIdle /\ SEIdle /\ LKIdle /\ BOIdle /\ NextShared
    \/ BaseIdle /\ YIdle /\ SHIdle /\ SEIdle /\ LKIdle /\ BOIdle /\ NextRepro
    \/ BaseIdle /\ YIdle /\ SHIdle /\ RPIdle /\ LKIdle /\ BOIdle /\ NextSelect
    \/ BaseIdle /\ YIdle /\ SHIdle /\ RPIdle /\ SEIdle /\ BOIdle /\ NextLookup
    \/ BaseIdle /\ YIdle /\ SHIdle /\ RPIdle /\ SEIdle /\ LKIdle /\ NextBackoff
    \/ BaseIdle /\ XIdle /\ CKIdle /\ WIdle /\ TAIdle /\ PLIdle /\ ECIdle /\ CPIdle /\ NextV3u
    \/ BaseIdle /\ XIdle /\ VUIdle /\ WIdle /\ TAIdle /\ PLIdle /\ ECIdle /\ CPIdle /\ NextCheck
    \/ BaseIdle /\ XIdle /\ VUIdle /\ CKIdle /\ TAIdle /\ PLIdle /\ ECIdle /\ CPIdle /\ NextV21
    \/ BaseIdle /\ XIdle /\ VUIdle /\ CKIdle /\ WIdle /\ PLIdle /\ ECIdle /\ CPIdle /\ NextTA
    \/ BaseIdle /\ XIdle /\ VUIdle /\ CKIdle /\ WIdle /\ TAIdle /\ ECIdle /\ CPIdle /\ NextMvpLookup
    \/ BaseIdle /\ XIdle /\ VUIdle /\ CKIdle /\ WIdle /\ TAIdle /\ PLIdle /\ CPIdle /\ NextErrClass
    \/ BaseIdle /\ XIdle /\ VUIdle /\ CKIdle /\ WIdle /\ TAIdle /\ PLIdle /\ ECIdle /\ NextProxy
Spec == Init /\ [][Next]_vars

-----------------------------------------------------------------------------
(* Properties *)

\* the strategy run_test of test_agent_adk_v2.py looked up for the failure
\* its result reports
V2ResultStrategy == v2_tool_check_playbook(v2_playbook, v2_result.status_code)

\* C1: retry bound of run_test (test_agent_adk_v2.py): a failure result's
\* attempts never exceeds the max_retries of the strategy looked up for that
\* failure (stated for max_retries >= 1; a first attempt is always made).
C1_RetryBound ==
    (v2_pc = "returned" /\ ~v2_result.ok /\ V2ResultStrategy.max_retries >= 1)
        => v2_result.attempts <= V2ResultStrategy.max_retries

\* C2: run_test (test_agent_adk_v2.py) returns a result even when the
\* operation fails on every attempt and the reasoner answers should_retry
\* true every time: it never ends with the recursion exhausting the stack.
C2_ReturnsResult ==
    ~(v2_pc = "raised" /\ v2_exc = "RecursionError" /\ v2_all_retry)

\* C3: when the reasoner raises on every call, every decision of
\* _tool_decide_retry (test_agent_adk_v2.py) is the heuristic fallback and
\* no exception escapes run_test, whatever the failing status code.
C3_FallbackTerminal ==
    v2_all_raise =>
        /\ v2_pc # "raised"
        /\ \A k \in 1..Len(v2_trail) :
              v2_trail[k].fallback /\ ~v2_trail[k].llm_called

C5_NonConformingFallsBack ==
    (/\ d_decision # V3NoDecision
     /\ \/ d_reply.kind \in {"raise", "nonjson", "nonobject"}
        \/ d_reply.kind = "object" /\ d_reply.fields # RequiredFields)
        => /\ ~d_decision.llm_called
           /\ d_decision = v3_fallback(d_error_code, d_attempt, d_max_retries)

C7_ExhaustionReason ==
    \A k \in 1..Len(v3_results) :
        (/\ ~v3_results[k].ok
         /\ v3_results[k].attempts = V3MaxRetries
         /\ v3_results[k].decision.action = "retry")
            => v3_results[k].reason = "max_retries_exceeded"

\* C8: after a first attempt fails with a status code that matches no
\* playbook procedure (default strategy, max_retries 0), _run_single_test
\* (test_agent_adk_v3.py) does not go on to a backoff and a second attempt.
C8_DefaultStrategyOneAttempt ==
    (v3_pc = "backoff" /\ v3_attempt = 1)
        => v3_tool_check_playbook(v3_playbook, v3_status).max_retries # 0

\* the decisions a result of _run_single_test records
V3RecordedDecisions(result) ==
    IF result.decision = V3NoDecision THEN <<>> ELSE <<result.decision>>

\* C9: the result returned for a test records every decision taken during
\* that test, in order (_run_single_test of test_agent_adk_v3.py).
C9_TrailRecorded ==
    (v3_results # <<>> /\ v3_attempt = 0 /\ v3_pc \in {"invoking", "done"})
        => V3RecordedDecisions(v3_results[Len(v3_results)]) = v3_trail

\* C10: _should_inject_chaos returns false whenever failure_rate <= 0 and
\* true whenever failure_rate >= 1, for every seed and after any earlier
\* calls on the instance.
C10_Boundary ==
    ca_calls > 0 =>
        /\ ca_rate <= 0 => ~ca_inject
        /\ ca_rate >= 1000 => ca_inject

\* a call at failure_rate 0 made after two calls that advanced the counter
C10_Witness ==
    /\ ca_calls >= 3 /\ ca_counter >= 2 /\ ca_rate = 0 /\ ~ca_inject

\* C11: for 0 < failure_rate < 1, a call of _should_inject_chaos that repeats
\* the failure_rate and seed of the previous call on the same ChaosAgent
\* returns the boolean the previous call returned
C11_ArgumentsDetermineDraw ==
    [][(/\ ca_calls > 0 /\ ca_calls' = ca_calls + 1
        /\ ca_rate > 0 /\ ca_rate < 1000
        /\ ca_rate' = ca_rate /\ ca_seed' = ca_seed)
       => ca_inject' = ca_inject]_vars

\* C12: with 0 < failure_rate < 1, the verdict a run receives for its k-th
\* call on the shared ChaosAgent does not depend on the interleaving: it is
\* the verdict the run receives when its calls are the only ones
C12_VerdictsInterleavingIndependent ==
    \A run \in Runs : \A k \in 1..Len(sh_verdicts[run]) :
        sh_verdicts[run][k] =
            should_inject_chaos(k - 1, sh_rate[run], sh_seed[run]).result

C14Weight(code) ==
    IF code = <<4, 0, 0>> THEN 40
    ELSE IF code = <<4, 0, 4>> THEN 30
    ELSE IF code = <<4, 2, 2>> THEN 20
    ELSE IF code = <<5, 0, 0>> THEN 10
    ELSE 10
RECURSIVE C14Cum(_, _)
C14Cum(declared, k) ==
    IF k = 0 THEN 0 ELSE C14Cum(declared, k - 1) + C14Weight(declared[k])

\* C14: select_error_code returns '400' when the operation is unknown or
\* declares no error classes; otherwise it returns a declared class, the one
\* whose share of the weights (table weight, 10 for a class absent from the
\* table) holds the draw of random.Random(seed)
C14_SelectErrorCode ==
    se_done =>
        LET declared == ChaosStrategies(se_tool)
            n == Len(declared)
            x == RandomMicro(se_seed) * C14Cum(declared, n)
        IN  IF se_tool \notin KnownTools \/ n = 0
            THEN se_code = <<4, 0, 0>>
            ELSE \E i \in 1..n :
                    /\ se_code = declared[i]
                    /\ C14Cum(declared, i - 1) * 1000000 <= x
                    /\ x < C14Cum(declared, i) * 1000000

\* the class selected is one the table does not hold
C14_Witness ==
    se_done /\ se_tool = "placeOrder" /\ se_code = <<5, 0, 3>>

\* procedure i of the playbook looked up carries the failing code, the two
\* compared as strings
C15Match(i) == PyStr(lk_playbook[i].error_code) = IntToStr(lk_code)

\* C15: _tool_check_playbook (v2 and v2_v1) returns the strategy of the first
\* procedure in list order whose error_code equals the failing code compared
\* as strings, and the default {found: false, action: 'fail', max_retries: 0}
\* when none matches
C15_FirstMatchingProcedure ==
    lk_done =>
        \A res \in {lk_v2, lk_v21} :
            IF \E i \in 1..Len(lk_playbook) : C15Match(i)
            THEN \E i \in 1..Len(lk_playbook) :
                    /\ C15Match(i)
                    /\ \A j \in 1..(i - 1) : ~C15Match(j)
                    /\ res.found
                    /\ res.action = lk_playbook[i].action
                    /\ res.max_retries = lk_playbook[i].max_retries
                    /\ res.backoff_seconds = lk_playbook[i].backoff_seconds
            ELSE ~res.found /\ res.action = "fail" /\ res.max_retries = 0

\* two procedures carry the failing code, one as an int and one as a str,
\* with different strategies
C15_Witness ==
    /\ lk_done /\ Len(lk_playbook) = 2
    /\ C15Match(1) /\ C15Match(2)
    /\ lk_playbook[1].error_code.isStr # lk_playbook[2].error_code.isStr
    /\ lk_playbook[1].action # lk_playbook[2].action
    /\ lk_playbook[1].max_retries # lk_playbook[2].max_retries

\* C16: _tool_apply_backoff of v3 sleeps min(base_delay * 2^(attempt-1), 10 s)
\* (20 half seconds): for attempt >= 1 the delay never exceeds the cap, does
\* not decrease from one attempt to the next, and stays at the cap once there
C16_BackoffCapped ==
    bo_attempt >= 1 =>
        /\ LET raw == bo_base * (2 ^ (bo_attempt - 1))
           IN  bo_delay = IF raw <= 20 THEN raw ELSE 20
        /\ bo_delay <= 20
        /\ bo_attempt >= 2 =>
             /\ bo_prev <= bo_delay
             /\ bo_prev = 20 => bo_delay = 20

\* with the default base_delay the cap was reached and the next attempt
\* slept the cap again
C16_Witness ==
    /\ bo_base = V3BaseDelay /\ bo_attempt >= 2
    /\ bo_prev = 20 /\ bo_delay = 20

\* _run_single_test has returned for the latest test
V3TestReturned == v3_pc = "done" \/ (v3_pc = "invoking" /\ v3_attempt = 0)

\* C17: within one test of v3, the invocation of attempt n+1 follows attempt
\* n's invocation, evaluation, playbook lookup, decision and backoff, in that
\* order, with exactly one backoff between the two invocations; no backoff
\* follows the last attempt
C17_StepOrder ==
    /\ \A k \in 1..Len(v3_events) :
        v3_events[k].ev = "invoke" =>
            \/ k = 1 /\ v3_events[k].attempt = 1
            \/ /\ k >= 6
               /\ LET n == v3_events[k].attempt - 1
                  IN  /\ n >= 1
                      /\ v3_events[k - 5] = V3Event("invoke", n)
                      /\ v3_events[k - 4] = V3Event("evaluate", n)
                      /\ v3_events[k - 3] = V3Event("lookup", n)
                      /\ v3_events[k - 2] = V3Event("decide", n)
                      /\ v3_events[k - 1] = V3Event("backoff", n)
    /\ Len(v3_events) >= 1 => v3_events[1].ev = "invoke"
    /\ (V3TestReturned /\ Len(v3_events) >= 1) =>
           v3_events[Len(v3_events)].ev # "backoff"

\* a test returned after three failed attempts and two backoffs
C17_Witness ==
    /\ V3TestReturned
    /\ Len(v3_events) = 14
    /\ v3_events[14] = V3Event("decide", 3)
    /\ v3_events[10] = V3Event("backoff", 2)

RECURSIVE C18SumAttempts(_)
C18SumAttempts(results) ==
    IF Len(results) = 0 THEN 0
    ELSE results[1].attempts + C18SumAttempts(Tail(results))

\* C18: after every completed run_test_suite of v3, a second or later run on
\* the same instance included, the metrics describe that run only:
\* passed + failed = total_tests = number of tests of the run, and
\* total_attempts = the sum of the attempts of the run's results
C18_MetricsOfThisRun ==
    v3_pc = "done" =>
        /\ v3_metrics.total_tests = Len(v3_tests)
        /\ v3_metrics.passed + v3_metrics.failed = v3_metrics.total_tests
        /\ v3_metrics.total_attempts = C18SumAttempts(v3_results)

\* C19: a test of v2's run_test that has not ended can always take a step,
\* also when the operation invocation or the reasoner call it awaits never
\* completes: a per-test deadline abandons the pending call
C19_PendingCallAbandoned ==
    v2_pc \notin {"returned", "raised"} => ENABLED NextV2Hang

\* C20: _run_single_test of v3 returns after at most 3 invocations of the
\* operation, whatever the outcomes and the reasoner's verdicts: a test that
\* has not returned can step, no test is invoked more than 3 times, and the
\* attempts of every result are between 1 and 3 and count the invocations
C20_AtMostThreeInvocations ==
    /\ v3_invocations <= 3
    /\ \A k \in 1..Len(v3_results) : v3_results[k].attempts \in 1..3
    /\ (V3TestReturned /\ Len(v3_results) >= 1) =>
           v3_results[Len(v3_results)].attempts = v3_invocations
    /\ v3_pc \in {"invoking", "deciding", "backoff"} => ENABLED NextV3

\* a test returned after three invocations, the reasoner having answered
\* retry every time
C20_Witness ==
    /\ V3TestReturned
    /\ v3_invocations = 3
    /\ Len(v3_trail) = 3
    /\ \A k \in 1..3 : v3_trail[k].action = "retry" /\ v3_trail[k].llm_called

\* C21: when the reasoner fails, decide_retry_tool of v3 returns the decision
\* of HeuristicPolicy for the same (attempt, max_retries, strategy action):
\* fail if attempt >= max_retries, otherwise retry exactly when the strategy
\* action is retry, for every error code
C21_FallbackIsHeuristicPolicy ==
    (/\ d_decision # V3NoDecision
     /\ d_reply.kind \in {"raise", "nonjson", "nonobject"})
        => d_decision.action =
               IF d_attempt >= d_max_retries THEN "fail"
               ELSE IF d_action = "retry" THEN "retry"
               ELSE "fail"

\* HeuristicPolicy: fail if attempt >= max_retries, else retry exactly when
\* the strategy action is retry
HeuristicPolicy(attempt, max_retries, action) ==
    IF attempt >= max_retries THEN "fail"
    ELSE IF action = "retry" THEN "retry"
    ELSE "fail"

\* the reasoner failed at every decision of the test of test_agent_adk_v3_.py
VuReasonerAlwaysFailed ==
    \A n \in 1..Len(vu_log) : ~vu_log[n].llm_called

\* with the operation outcomes of the log, the attempt at which the test run
\* under HeuristicPolicy alone ends
VuHeuristicEnds(n) ==
    \/ vu_log[n].status = 200
    \/ HeuristicPolicy(n, VuMaxRetries, vu_log[n].action) = "fail"

\* C22: in test_agent_adk_v3_.py every fallback decision taken in
\* _run_single_test is the HeuristicPolicy decision for the same attempt,
\* max_retries and strategy action, and a test whose reasoner always fails
\* ends with the ok and attempts of the same test under HeuristicPolicy alone
C22_FallbackRunIsHeuristicRun ==
    /\ \A n \in 1..Len(vu_log) :
        (vu_log[n].decisions >= 1 /\ ~vu_log[n].llm_called) =>
            vu_log[n].decision =
                HeuristicPolicy(n, VuMaxRetries, vu_log[n].action)
    /\ (vu_pc = "returned" /\ VuReasonerAlwaysFailed) =>
        /\ vu_result.attempts = Len(vu_log)
        /\ VuHeuristicEnds(Len(vu_log))
        /\ \A n \in 1..(Len(vu_log) - 1) : ~VuHeuristicEnds(n)
        /\ vu_result.ok = (vu_log[Len(vu_log)].status = 200)

\* the reasoner failed twice, the fallback retried twice, and the test
\* returned at its third attempt
C22_Witness ==
    /\ vu_pc = "returned" /\ VuReasonerAlwaysFailed
    /\ Len(vu_log) = 3
    /\ vu_log[1].decisions = 1 /\ vu_log[2].decisions = 1
    /\ vu_log[1].decision = "retry" /\ vu_log[2].decision = "retry"

\* C23: in _run_single_test of test_agent_adk_v3_.py every failed attempt
\* that is over (the test retried or returned) went through one playbook
\* lookup and then exactly one Retry Decision Policy invocation
C23_LookupThenOneDecision ==
    \A n \in 1..Len(vu_log) :
        (/\ vu_log[n].status # 200
         /\ n < Len(vu_log) \/ vu_pc \in {"returned", "backoff"})
            => vu_log[n].lookups = 1 /\ vu_log[n].decisions = 1

\* entry i of the playbook looked up lists the failing code
C24Match(i) == PyStrIn(IntToStr(ck_code), ck_playbook[i].error_codes)

\* C24: _tool_check_playbook of v3 returns, for a matched error code, the
\* max_retries configured in the matching (first) playbook entry, and 0 for
\* the unmatched default
C24_ConfiguredMaxRetries ==
    ck_done =>
        IF \E i \in 1..Len(ck_playbook) : C24Match(i)
        THEN \E i \in 1..Len(ck_playbook) :
                /\ C24Match(i)
                /\ \A j \in 1..(i - 1) : ~C24Match(j)
                /\ ck_strategy.max_retries = ck_playbook[i].max_retries
        ELSE ck_strategy.max_retries = 0

\* the backoff_seconds of every strategy of V2Playbooks (and of the default)
C25BackoffSeconds == CHOOSE b \in {p.backoff_seconds : p \in V2Procedures} : TRUE
\* the finite caps considered: every value up to the largest uncapped delay
C25Caps == 1..(C25BackoffSeconds * (2 ^ RecursionLimit))
C25Delay(n, cap) ==
    LET delay == C25BackoffSeconds * (2 ^ (n - 1))
    IN  IF delay < cap THEN delay ELSE cap

\* C25: in run_test of v2 (and v2_v1, same expression) there is a finite cap
\* such that the delay slept after failed attempt n is
\* min(backoff_seconds * 2^(n-1), cap), for every attempt of the run
C25_ExponentialCappedDelay ==
    \E cap \in C25Caps :
        \A n \in 1..Len(v2_sleeps) : v2_sleeps[n] = C25Delay(n, cap)

\* C26: run_test of v2_v1 records ok = true only for a final outcome with
\* status_code 200; an outcome with any other status code goes to the
\* playbook lookup and never to a successful result
C26_SuccessOnlyOn200 ==
    /\ (w_pc = "done" /\ w_result.ok) => w_result.status_code = 200
    /\ (w_call # "none" /\ w_outcome.status_code # 200) =>
          \/ w_pc \in {"check", "decide", "backoff"}
          \/ w_pc = "done" /\ ~w_result.ok /\ w_looked_up = w_outcome.status_code

\* C27: when chaos_agent_func raises or is not set, _tool_call_operation
\* returns status_code 500 with chaos_injected = false, the frame goes on
\* with the playbook lookup for 500 and then the decision, and no exception
\* leaves run_test
C27_CallFailureIsOutcome500 ==
    /\ w_pc # "escaped"
    /\ w_call \in {"raised", "unset"} =>
          /\ w_outcome.status_code = 500 /\ ~w_outcome.chaos_injected
          /\ w_pc \in {"check", "decide", "backoff", "done"}
          /\ w_pc = "check" => w_looked_up = 0 /\ ~w_decided
          /\ w_pc = "decide" => w_looked_up = 500 /\ ~w_decided
          /\ w_pc \in {"backoff", "done"} => w_looked_up = 500 /\ w_decided
          /\ w_pc = "done" =>
                /\ ~w_result.ok /\ w_result.status_code = 500
                /\ ~w_result.chaos_injected

\* a retried test whose last call raised ends as an accepted failure
C27_Witness ==
    /\ w_pc = "done" /\ w_call = "raised" /\ w_result.attempts >= 2
    /\ ~w_result.ok /\ w_result.status_code = 500

\* invocations of the operation made for the test in progress
C28Pending == IF V3TestReturned \/ v3_pc = "idle" THEN 0 ELSE v3_invocations

\* the attempt numbers of the invocations of the latest test, in order
C28IsInvoke(e) == e.ev = "invoke"
C28InvokedAttempts ==
    LET invokes == SelectSeq(v3_events, C28IsInvoke)
    IN  [j \in 1..Len(invokes) |-> invokes[j].attempt]

\* C28: every result of _run_single_test of v3 has attempts >= 1 equal to the
\* number of invocations of the operation made for that test, the j-th
\* invocation carrying attempt number j, and metrics.total_attempts counts
\* exactly the invocations: those of the returned tests plus those of the
\* test in progress
C28_AttemptsCountInvocations ==
    /\ \A k \in 1..Len(v3_results) : v3_results[k].attempts >= 1
    /\ Len(C28InvokedAttempts) = v3_invocations
    /\ \A j \in 1..Len(C28InvokedAttempts) : C28InvokedAttempts[j] = j
    /\ (V3TestReturned /\ Len(v3_results) >= 1) =>
           v3_results[Len(v3_results)].attempts = Len(C28InvokedAttempts)
    /\ v3_metrics.total_attempts = C18SumAttempts(v3_results) + C28Pending

\* a suite of two tests returned after three and two invocations
C28_Witness ==
    /\ v3_pc = "done" /\ Len(v3_results) = 2
    /\ v3_results[1].attempts = 3 /\ v3_results[2].attempts = 2
    /\ v3_results[2].ok /\ v3_invocations = 2
    /\ v3_metrics.total_attempts = 5

\* C29: every invocation of _should_inject_chaos, whatever its failure_rate,
\* advances the draw index of the instance (the call counter added to the
\* seed) by exactly one
C29_EveryCallAdvancesCounter ==
    [][ca_calls' = ca_calls + 1 => ca_counter' = ca_counter + 1]_vars

\* C30: run_tests of test_agent.py goes on to return exactly one result per
\* test, in suite order; a test whose chaos_agent.call raised has ok = false,
\* status_code None and the exception text as error, and the tests after it
\* are still run
C30_OneResultPerTestDespiteRaise ==
    /\ ta_pc # "done" => ENABLED NextTA
    /\ ta_pc = "done" => Len(ta_results) = Len(ta_suite)
    /\ Len(ta_results) <= Len(ta_suite)
    /\ \A k \in 1..Len(ta_results) :
        /\ ta_results[k].test_id = TATestId(ta_suite[k], k - 1)
        /\ ta_calls[k].kind = "raises" =>
              /\ ~ta_results[k].ok
              /\ ta_results[k].status_code = TANone
              /\ ta_results[k].error = ta_calls[k].error

\* a returned suite of two tests: the call raised for the first, and the
\* second ran and passed
C30_Witness ==
    /\ ta_pc = "done" /\ Len(ta_results) = 2
    /\ ta_calls[1].kind = "raises" /\ ta_results[1].error = "boom"
    /\ ta_calls[2].kind = "returns" /\ ta_results[2].ok
    /\ ta_results[1].test_id = "test_0001" /\ ta_results[2].test_id = "b"

\* C31: whenever lookup_playbook returns status success, the recommendation
\* is a strategy and never null: the tool-specific entry with found = true
\* when the playbook has one for (tool_name, str(error_code)), otherwise the
\* default entry with found = false; an unreadable playbook gives status
\* error
C31_RecommendationNeverNull ==
    pl_done =>
        /\ ~pl_playbook.readable => pl_result.status = "error"
        /\ pl_result.status = "success" =>
              /\ pl_result.recommendation # "absent"
              /\ LET entry == MvpToolEntry(pl_playbook, pl_tool, pl_code)
                 IN  IF entry \notin {"absent", "empty"}
                     THEN pl_result.found /\ pl_result.recommendation = entry
                     ELSE /\ ~pl_result.found
                          /\ pl_result.recommendation = pl_playbook.default

\* the largest max_retries among the strategies looked up so far, 0 if none
C32MaxLookedUp ==
    LET ms == {w_trail[k].strategy.max_retries : k \in 1..Len(w_trail)} \cup {0}
    IN  CHOOSE m \in ms : \A n \in ms : n <= m
C32AtLeastOne(m) == IF m >= 1 THEN m ELSE 1

\* every attempt of the run failed with the same code, whose playbook entry
\* says retry
C32AlwaysFailsWithRetryEntry ==
    /\ Len(w_trail) = w_attempt
    /\ \A k \in 1..Len(w_trail) :
          /\ w_trail[k].error_code = w_trail[1].error_code
          /\ w_trail[k].strategy.found
          /\ w_trail[k].strategy.action = "retry"

C33_ParticipationAtMostOne ==
    v3_pc # "idle" =>
        v3_metrics.tests_with_llm_reasoning <= v3_metrics.total_tests

\* C34: a result of run_test of v2 has llm_used = true only if at least one
\* decision of that test was produced by the reasoner (llm_called = true)
C34_LlmUsedMeansReasonerDecided ==
    (v2_pc = "returned" /\ v2_result.llm_used) =>
        \E k \in 1..Len(v2_trail) : v2_trail[k].llm_called

\* C35: for every tool name, names absent from the catalog included, the
\* outcome of ChaosAgent.call has status_code 200 exactly when the injection
\* decision was false and chaos_injected = true exactly when it was true
C35_OutcomeReflectsInjection ==
    ca_tool # "" =>
        /\ (ca_outcome.status_code = 200) = ~ca_inject
        /\ ca_outcome.chaos_injected = ca_inject

\* C36: the error class injected depends only on (tool_name, seed): under one
\* seed every injected failure of an operation carries the same error class,
\* whatever the call counter and the calls made before
C36_ErrorClassFixedBySeed ==
    \A i, j \in 1..Len(ec_log) :
        (ec_log[i].tool_name = ec_log[j].tool_name
            /\ ec_log[i].seed = ec_log[j].seed)
        => /\ ec_log[i].status_code = ec_log[j].status_code
           /\ ec_log[i].error = ec_log[j].error

\* two injected failures of one operation under one seed, made at different
\* values of the call counter, and a failure of the operation under another
\* seed that carries another error class
C36_Witness ==
    \E i, j, k \in 1..Len(ec_log) :
        /\ ec_log[i].tool_name = ec_log[j].tool_name
        /\ ec_log[i].seed = ec_log[j].seed
        /\ ec_log[i].counter # ec_log[j].counter
        /\ ec_log[k].tool_name = ec_log[i].tool_name
        /\ ec_log[k].seed # ec_log[i].seed
        /\ ec_log[k].status_code # ec_log[i].status_code

\* C37: run_tests sets ok = true exactly when (status_code == 200) equals the
\* test's expected_success (default true), and the call for the test at
\* index idx is made with seed seed_offset + idx
C37_VerdictIsExpectation ==
    \A k \in 1..Len(ta_results) :
        /\ ta_results[k].ok =
              ((ta_results[k].status_code = 200)
                  = ta_results[k].expected_success)
        /\ ta_results[k].expected_success = TAExpected(ta_suite[k])
        /\ ta_seeds[k] = ta_seed_offset + (k - 1)

\* the last call of send_request injected chaos
C38Injected == cp_in.draw < cp_failure_rate
\* the real call of the last send_request failed: unsupported method,
\* transport exception, or a body that does not decode
C38RealCallFailed ==
    \/ cp_in.method \notin {"GET", "POST", "PUT"}
    \/ cp_in.real.kind = "transport"
    \/ cp_in.real.status_code < 400 /\ ~cp_in.real.json_ok

\* C38: send_request returns an outcome for every input and never raises;
\* with chaos injected the outcome is status error with a code of
\* {404, 503, 408, 429} and no real request is issued; when the real call
\* fails the outcome is status error with code 500
C38_SendRequestNeverRaises ==
    cp_calls > 0 =>
        /\ ~cp_raised /\ ~cp_out.raises
        /\ cp_out.status \in {"success", "error"}
        /\ C38Injected =>
              /\ cp_out.status = "error" /\ ~cp_out.issued
              /\ cp_out.code \in {404, 503, 408, 429}
        /\ (~C38Injected /\ C38RealCallFailed) =>
              cp_out.status = "error" /\ cp_out.code = 500

\* a later call on the proxy, not injected, with an unsupported method
C38_Witness ==
    /\ cp_calls >= 2 /\ ~C38Injected /\ cp_in.method = "DELETE"
    /\ cp_out.status = "error" /\ cp_out.code = 500

=============================================================================
